---------------------------- MODULE Spec2Model ----------------------------
(***************************************************************************)
(* MedicLab frontend: the avatar-URL SSRF gate (utils/ssrfProtection.js).  *)
(*                                                                         *)
(* Strings are TLC strings; a character is a string of length one          *)
(* (SubSeq(s, i, i)).  The platform's `new URL(...)` is modelled after the *)
(* WHATWG URL Standard (scheme, authority, host parser with IPv4 / IPv6    *)
(* canonicalisation), restricted to printable ASCII input.                 *)
(***************************************************************************)
EXTENDS Integers, Sequences, FiniteSets, TLC

VARIABLES
    url,        \* the argument of the call when it is a string
    argKind,    \* "string", or which non-string value the caller passed
    result,     \* what validateAvatarUrl returned
    sanitized,  \* how sanitizeUrl(url) ended
    again,      \* how sanitizeUrl of that return value ended
    allowedDomains, \* the elements of the module's ALLOWED_DOMAINS array
    calls,      \* the calls of the module's functions that have returned
    serverAvatar,   \* avatar_url of the user's record at the backend
    storedAvatar,   \* avatar_url of the user object in localStorage
    avatarUrl,      \* Profile: state avatarUrl
    isValidUrl,     \* Profile: state isValidUrl
    inputValue,     \* AvatarUrlInput: state inputValue
    validation,     \* AvatarUrlInput: state validation
    previewUrl,     \* AvatarUrlInput: state previewUrl
    lastUse,        \* the last URL handed to the network, and by whom
    loading,        \* Profile: state loading
    updating,       \* Profile: state updating
    updateRequests, \* the avatar URLs of the PUT requests awaiting a response
    imageLoading,   \* AvatarUrlInput: state imageLoading
    imageError,     \* AvatarUrlInput: state imageError
    preview,        \* how createPreviewUrl(url) ended
    storage,        \* localStorage: the item stored under each key
    now,            \* the current time (Date.now() / 1000)
    currentView,    \* App: state currentView
    userRole,       \* App: state userRole
    lastOp,         \* the handler that ran last
    formData,       \* Register: state formData
    errors,         \* Register: the fields whose entry in errors is not empty
    isLoading,      \* Register: state isLoading
    registerRequests    \* the bodies of the register requests awaiting a response

\* the avatar pages: backend record, localStorage, Profile, AvatarUrlInput
\* Profile and AvatarUrlInput: requests in flight and the image's events
formVars == <<loading, updating, updateRequests, imageLoading, imageError>>

pageVars ==
    <<serverAvatar, storedAvatar, avatarUrl, isValidUrl, inputValue, validation,
      previewUrl, lastUse, formVars>>

\* what the other parts of the frontend hold
sessionVars == <<storage, now, currentView, userRole, lastOp>>

registerVars == <<formData, errors, isLoading, registerRequests>>

appVars == <<preview, sessionVars, registerVars>>

\* the variables of the calls of the ssrfProtection functions
callVars == <<url, argKind, result, sanitized, again, allowedDomains, calls, preview>>

vars ==
    <<url, argKind, result, sanitized, again, allowedDomains, calls, pageVars, appVars>>

-----------------------------------------------------------------------------
(* String primitives (String.prototype.* of the JavaScript runtime)         *)

\* the character at position i (1-based), "" past either end
At(s, i) == IF i >= 1 /\ i <= Len(s) THEN SubSeq(s, i, i) ELSE ""

Take(s, n) == IF n >= Len(s) THEN s ELSE SubSeq(s, 1, n)

Drop(s, n) == IF n >= Len(s) THEN "" ELSE SubSeq(s, n + 1, Len(s))

startsWith(s, p) == Len(p) <= Len(s) /\ Take(s, Len(p)) = p

endsWith(s, p) == Len(p) <= Len(s) /\ Drop(s, Len(s) - Len(p)) = p

occursAt(s, p, i) == i >= 1 /\ i + Len(p) - 1 <= Len(s) /\ SubSeq(s, i, i + Len(p) - 1) = p

\* position (1-based) of the first occurrence of p in s, 0 when there is none
indexOf(s, p) ==
    IF \A i \in 1..Len(s) : ~occursAt(s, p, i) THEN 0
    ELSE CHOOSE i \in 1..Len(s) : occursAt(s, p, i) /\ \A j \in 1..(i - 1) : ~occursAt(s, p, j)

lastIndexOf(s, p) ==
    IF \A i \in 1..Len(s) : ~occursAt(s, p, i) THEN 0
    ELSE CHOOSE i \in 1..Len(s) : occursAt(s, p, i) /\ \A j \in (i + 1)..Len(s) : ~occursAt(s, p, j)

includes(s, p) == \E i \in 1..Len(s) : occursAt(s, p, i)

Digits == "0123456789"

HexDigits == "0123456789abcdef"

UpperAlpha == "ABCDEFGHIJKLMNOPQRSTUVWXYZ"

LowerAlpha == "abcdefghijklmnopqrstuvwxyz"

\* code points 32..95 in order
AsciiLow == " !\"#$%&'()*+,-./0123456789:;<=>?@ABCDEFGHIJKLMNOPQRSTUVWXYZ[\\]^_"

\* code points 97..126 in order
AsciiHigh == "abcdefghijklmnopqrstuvwxyz{|}~"

IsDigit(c) == Len(c) = 1 /\ includes(Digits, c)

IsUpper(c) == Len(c) = 1 /\ includes(UpperAlpha, c)

IsLower(c) == Len(c) = 1 /\ includes(LowerAlpha, c)

IsAlpha(c) == IsUpper(c) \/ IsLower(c)

toLowerChar(c) == IF IsUpper(c) THEN At(LowerAlpha, indexOf(UpperAlpha, c)) ELSE c

RECURSIVE toLowerCase(_)
toLowerCase(s) ==
    IF Len(s) = 0 THEN "" ELSE toLowerChar(At(s, 1)) \o toLowerCase(Drop(s, 1))

toUpperChar(c) == IF IsLower(c) THEN At(UpperAlpha, indexOf(LowerAlpha, c)) ELSE c

RECURSIVE toUpperCase(_)
toUpperCase(s) ==
    IF Len(s) = 0 THEN "" ELSE toUpperChar(At(s, 1)) \o toUpperCase(Drop(s, 1))

IsHexDigit(c) == Len(c) = 1 /\ includes(HexDigits, toLowerChar(c))

HexVal(c) == indexOf(HexDigits, toLowerChar(c)) - 1

\* white space as String.prototype.trim sees it (ASCII part)
IsWhiteSpace(c) == c \in {" ", "\t", "\n", "\r", "\f"}

RECURSIVE trimStart(_)
trimStart(s) ==
    IF Len(s) > 0 /\ IsWhiteSpace(At(s, 1)) THEN trimStart(Drop(s, 1)) ELSE s

RECURSIVE trimEnd(_)
trimEnd(s) ==
    IF Len(s) > 0 /\ IsWhiteSpace(At(s, Len(s))) THEN trimEnd(Take(s, Len(s) - 1)) ELSE s

trim(s) == trimEnd(trimStart(s))

\* parseInt(s, radix) on a string of digits of that radix
RECURSIVE parseInt(_, _)
parseInt(s, radix) ==
    IF Len(s) = 0 THEN 0
    ELSE parseInt(Take(s, Len(s) - 1), radix) * radix + HexVal(At(s, Len(s)))

\* split(s, ".") as a sequence of strings
RECURSIVE split(_, _)
split(s, sep) ==
    IF ~includes(s, sep) THEN <<s>>
    ELSE <<Take(s, indexOf(s, sep) - 1)>> \o split(Drop(s, indexOf(s, sep)), sep)

RECURSIVE decimalString(_)
decimalString(n) ==
    IF n < 10 THEN At(Digits, n + 1)
    ELSE decimalString(n \div 10) \o At(Digits, (n % 10) + 1)

RECURSIVE hexString(_)
hexString(n) ==
    IF n < 16 THEN At(HexDigits, n + 1)
    ELSE hexString(n \div 16) \o At(HexDigits, (n % 16) + 1)

-----------------------------------------------------------------------------
(* The host parser of `new URL` (WHATWG URL Standard, "host parsing")       *)

HostFailure == [ok |-> FALSE, host |-> ""]

HostOk(h) == [ok |-> TRUE, host |-> h]

\* the character of a decoded byte; "" for a byte outside 32..126 (and 96)
ByteChar(b) ==
    IF b >= 32 /\ b <= 95 THEN At(AsciiLow, b - 31)
    ELSE IF b >= 97 /\ b <= 126 THEN At(AsciiHigh, b - 96)
    ELSE ""

\* a decoded character c put in front of the decoded remainder r
decodedCons(c, isByte, r) == [ok |-> r.ok /\ (isByte => c # ""), text |-> c \o r.text]

\* percent-decode: every %xx with two hex digits becomes its byte; ok is
\* FALSE when a decoded byte is a control or lies outside printable ASCII
RECURSIVE percentDecode(_)
percentDecode(s) ==
    IF Len(s) = 0 THEN [ok |-> TRUE, text |-> ""]
    ELSE IF At(s, 1) = "%" /\ IsHexDigit(At(s, 2)) /\ IsHexDigit(At(s, 3))
         THEN decodedCons(ByteChar(parseInt(SubSeq(s, 2, 3), 16)), TRUE,
                          percentDecode(Drop(s, 3)))
         ELSE decodedCons(At(s, 1), FALSE, percentDecode(Drop(s, 1)))

ForbiddenHostCodePoints ==
    {" ", "\t", "\n", "\r", "#", "/", ":", "<", ">", "?", "@", "[", "\\", "]", "^", "|"}

ForbiddenDomainCodePoints == ForbiddenHostCodePoints \cup {"%"}

\* an IPv4 number is kept as hi * 65536 + lo; hi = 65536 stands for a value
\* of 2^32 or more
IPv4Overflow == 65536

IPv4NumberFailure == [ok |-> FALSE, hi |-> 0, lo |-> 0]

RECURSIVE ipv4Accumulate(_, _, _, _)
ipv4Accumulate(s, radix, hi, lo) ==
    IF Len(s) = 0 THEN [ok |-> TRUE, hi |-> hi, lo |-> lo]
    ELSE ipv4Accumulate(Drop(s, 1), radix,
            IF hi * radix + ((lo * radix + HexVal(At(s, 1))) \div 65536) >= IPv4Overflow
            THEN IPv4Overflow
            ELSE hi * radix + ((lo * radix + HexVal(At(s, 1))) \div 65536),
            (lo * radix + HexVal(At(s, 1))) % 65536)

parseInRadix(body, radix) ==
    IF \E i \in 1..Len(body) : ~IsHexDigit(At(body, i)) \/ HexVal(At(body, i)) >= radix
    THEN IPv4NumberFailure
    ELSE ipv4Accumulate(body, radix, 0, 0)

\* "IPv4 number parser": 0x prefix is hexadecimal, a leading 0 is octal
parseIPv4Number(s) ==
    IF Len(s) = 0 THEN IPv4NumberFailure
    ELSE IF Len(s) >= 2 /\ At(s, 1) = "0" /\ At(s, 2) \in {"x", "X"}
         THEN parseInRadix(Drop(s, 2), 16)
    ELSE IF Len(s) >= 2 /\ At(s, 1) = "0" THEN parseInRadix(Drop(s, 1), 8)
    ELSE parseInRadix(s, 10)

dropTrailingEmpty(parts) ==
    IF parts[Len(parts)] = "" /\ Len(parts) > 1
    THEN SubSeq(parts, 1, Len(parts) - 1)
    ELSE parts

\* the parts of a host with one trailing empty part removed
hostParts(h) == dropTrailingEmpty(split(h, "."))

isNumberPart(last) ==
    \/ (Len(last) > 0 /\ \A i \in 1..Len(last) : IsDigit(At(last, i)))
    \/ parseIPv4Number(last).ok

lastPart(parts) == parts[Len(parts)]

\* "ends-in-a-number checker"
endsInANumber(h) == isNumberPart(lastPart(hostParts(h)))

\* octet i of the address: part i when it is not the last part, else the
\* matching byte of the last part
ipv4Octet(nums, i) ==
    IF i < Len(nums) THEN nums[i].lo
    ELSE CASE i = 1 -> nums[Len(nums)].hi \div 256
           [] i = 2 -> nums[Len(nums)].hi % 256
           [] i = 3 -> nums[Len(nums)].lo \div 256
           [] OTHER -> nums[Len(nums)].lo % 256

\* the last part fills the bytes the other parts leave: below 256^(5 - n)
lastPartFits(last, n) ==
    CASE n = 1 -> last.hi < IPv4Overflow
      [] n = 2 -> last.hi < 256
      [] n = 3 -> last.hi = 0
      [] OTHER -> last.hi = 0 /\ last.lo < 256

serializeIPv4(a, b, c, d) ==
    decimalString(a) \o "." \o decimalString(b) \o "." \o decimalString(c)
        \o "." \o decimalString(d)

ipv4FromNumbers(nums) ==
    IF Len(nums) > 4 THEN HostFailure
    ELSE IF \E i \in 1..Len(nums) : ~nums[i].ok THEN HostFailure
    ELSE IF \E i \in 1..(Len(nums) - 1) : nums[i].hi > 0 \/ nums[i].lo > 255 THEN HostFailure
    ELSE IF ~lastPartFits(nums[Len(nums)], Len(nums)) THEN HostFailure
    ELSE HostOk(serializeIPv4(ipv4Octet(nums, 1), ipv4Octet(nums, 2),
                              ipv4Octet(nums, 3), ipv4Octet(nums, 4)))

ipv4Numbers(parts) == [i \in 1..Len(parts) |-> parseIPv4Number(parts[i])]

\* "IPv4 parser" followed by the IPv4 serializer (dotted decimal)
parseIPv4(h) == ipv4FromNumbers(ipv4Numbers(hostParts(h)))

\* number of hexadecimal digits from position p on, at most 4
hexRun(s, p) ==
    CHOOSE n \in 0..4 :
        /\ \A i \in 0..(n - 1) : IsHexDigit(At(s, p + i))
        /\ n = 4 \/ ~IsHexDigit(At(s, p + n))

\* number of decimal digits from position p on, at most 4
digitRun(s, p) ==
    CHOOSE n \in 0..4 :
        /\ \A i \in 0..(n - 1) : IsDigit(At(s, p + i))
        /\ n = 4 \/ ~IsDigit(At(s, p + n))

\* end of the "IPv6 parser": the pieces after the compression marker move to
\* the end of the address; comp = -1 means no "::" was seen
ipv6Finish(addr, pi, comp) ==
    IF comp # -1
    THEN [ok |-> TRUE,
          addr |-> [i \in 1..8 |->
                      IF i <= comp THEN addr[i]
                      ELSE IF i <= comp + (8 - pi) THEN 0
                      ELSE addr[i - (8 - pi)]]]
    ELSE [ok |-> pi = 8, addr |-> addr]

IPv6Failure == [ok |-> FALSE, addr |-> [i \in 1..8 |-> 0]]

\* the embedded dotted-decimal IPv4 tail of an IPv6 literal; p1 is where the
\* next number starts and dl the number of its digits
RECURSIVE ipv6IPv4Part(_, _, _, _, _, _)
ipv6IPv4Number(s, addr, pi, comp, seen, p1, dl, dotOk) ==
    IF ~dotOk \/ dl = 0 \/ dl > 3 THEN IPv6Failure
    ELSE IF dl > 1 /\ At(s, p1) = "0" THEN IPv6Failure
    ELSE IF parseInt(SubSeq(s, p1, p1 + dl - 1), 10) > 255 THEN IPv6Failure
    ELSE ipv6IPv4Part(s,
            [addr EXCEPT ![pi + 1] = @ * 256 + parseInt(SubSeq(s, p1, p1 + dl - 1), 10)],
            IF seen + 1 \in {2, 4} THEN pi + 1 ELSE pi,
            comp, p1 + dl, seen + 1)

ipv6IPv4Part(s, addr, pi, comp, p, seen) ==
    IF At(s, p) = ""
    THEN IF seen # 4 THEN IPv6Failure ELSE ipv6Finish(addr, pi, comp)
    ELSE IF seen > 0
         THEN ipv6IPv4Number(s, addr, pi, comp, seen, p + 1, digitRun(s, p + 1),
                             At(s, p) = "." /\ seen < 4)
         ELSE ipv6IPv4Number(s, addr, pi, comp, seen, p, digitRun(s, p), TRUE)

\* main loop of the "IPv6 parser"; pi is the piece index (0-based as in the
\* standard), p the pointer (1-based), hl the number of hex digits at p
RECURSIVE ipv6Loop(_, _, _, _, _)
ipv6Piece(s, addr, pi, comp, p, hl) ==
    IF At(s, p + hl) = "."
    THEN IF hl = 0 \/ pi > 6 THEN IPv6Failure
         ELSE ipv6IPv4Part(s, addr, pi, comp, p, 0)
    ELSE IF At(s, p + hl) = ":"
    THEN IF At(s, p + hl + 1) = "" THEN IPv6Failure
         ELSE ipv6Loop(s, [addr EXCEPT ![pi + 1] = parseInt(SubSeq(s, p, p + hl - 1), 16)],
                       pi + 1, comp, p + hl + 1)
    ELSE IF At(s, p + hl) # "" THEN IPv6Failure
    ELSE ipv6Finish([addr EXCEPT ![pi + 1] = parseInt(SubSeq(s, p, p + hl - 1), 16)],
                    pi + 1, comp)

ipv6Loop(s, addr, pi, comp, p) ==
    IF At(s, p) = "" THEN ipv6Finish(addr, pi, comp)
    ELSE IF pi = 8 THEN IPv6Failure
    ELSE IF At(s, p) = ":"
         THEN IF comp # -1 THEN IPv6Failure
              ELSE ipv6Loop(s, addr, pi + 1, pi + 1, p + 1)
    ELSE ipv6Piece(s, addr, pi, comp, p, hexRun(s, p))

parseIPv6(s) ==
    IF At(s, 1) = ":"
    THEN IF At(s, 2) # ":" THEN IPv6Failure
         ELSE ipv6Loop(s, [i \in 1..8 |-> 0], 1, 1, 3)
    ELSE ipv6Loop(s, [i \in 1..8 |-> 0], 0, -1, 1)

\* length of the run of zero pieces that starts at piece i
RECURSIVE zeroRun(_, _)
zeroRun(addr, i) == IF i > 8 \/ addr[i] # 0 THEN 0 ELSE 1 + zeroRun(addr, i + 1)

RECURSIVE ipv6Pieces(_, _, _)
ipv6Pieces(addr, i, comp) ==
    IF i > 8 THEN ""
    ELSE IF i = comp
         THEN (IF i = 1 THEN "::" ELSE ":") \o ipv6Pieces(addr, i + zeroRun(addr, i), comp)
    ELSE hexString(addr[i]) \o (IF i # 8 THEN ":" ELSE "") \o ipv6Pieces(addr, i + 1, comp)

\* the piece at which the first longest run of two or more zero pieces
\* starts, 0 when there is no such run
compressAt(runs) ==
    IF \A i \in 1..8 : runs[i] < 2 THEN 0
    ELSE CHOOSE i \in 1..8 :
            /\ \A j \in 1..8 : runs[j] <= runs[i]
            /\ \A j \in 1..(i - 1) : runs[j] < runs[i]

\* "IPv6 serializer": the first longest run of zero pieces becomes "::"
serializeIPv6(addr) ==
    ipv6Pieces(addr, 1, compressAt([i \in 1..8 |-> zeroRun(addr, i)]))

\* "opaque-host parser" (hosts of non-special schemes)
parseOpaqueHost(input) ==
    IF \E i \in 1..Len(input) : At(input, i) \in ForbiddenHostCodePoints
    THEN HostFailure
    ELSE HostOk(input)

ipv6Host(a) ==
    IF a.ok THEN HostOk("[" \o serializeIPv6(a.addr) \o "]") ELSE HostFailure

\* the lower-cased domain: no forbidden code point; a host that ends in a
\* number is an IPv4 address
asciiHost(asciiDomain) ==
    IF asciiDomain = "" THEN HostFailure
    ELSE IF \E i \in 1..Len(asciiDomain) : At(asciiDomain, i) \in ForbiddenDomainCodePoints
         THEN HostFailure
    ELSE IF endsInANumber(asciiDomain) THEN parseIPv4(asciiDomain)
    ELSE HostOk(asciiDomain)

decodedHost(decoded) ==
    IF ~decoded.ok THEN HostFailure ELSE asciiHost(toLowerCase(decoded.text))

\* "host parser"; the result is the serialized host (URL.hostname)
parseHost(input, isOpaque) ==
    IF startsWith(input, "[")
    THEN IF ~endsWith(input, "]") THEN HostFailure
         ELSE ipv6Host(parseIPv6(SubSeq(input, 2, Len(input) - 1)))
    ELSE IF isOpaque THEN parseOpaqueHost(input)
    ELSE decodedHost(percentDecode(input))

-----------------------------------------------------------------------------
(* `new URL(input)` without a base (WHATWG "basic URL parser")              *)

URLFailure ==
    [ok |-> FALSE, protocol |-> "", username |-> "", password |-> "",
     hostname |-> "", port |-> "", hostless |-> FALSE, rest |-> ""]

URLOk(scheme, hostname, port, rest) ==
    [ok |-> TRUE, protocol |-> scheme \o ":", username |-> "", password |-> "",
     hostname |-> hostname, port |-> port, hostless |-> FALSE, rest |-> rest]

\* a URL whose host is null: "scheme:" is followed by the path at once
URLHostless(scheme, rest) == [URLOk(scheme, "", "", rest) EXCEPT !.hostless = TRUE]

SpecialSchemes == {"http", "https", "ftp", "ws", "wss", "file"}

defaultPort(scheme) ==
    CASE scheme \in {"http", "ws"} -> "80"
      [] scheme \in {"https", "wss"} -> "443"
      [] scheme = "ftp" -> "21"
      [] OTHER -> ""

IsSchemeChar(c) == IsAlpha(c) \/ IsDigit(c) \/ c \in {"+", "-", "."}

\* position of the first character of s that lies in set, Len(s) + 1 if none
firstIndexIn(s, set) ==
    IF \A i \in 1..Len(s) : At(s, i) \notin set THEN Len(s) + 1
    ELSE CHOOSE i \in 1..Len(s) :
            At(s, i) \in set /\ \A j \in 1..(i - 1) : At(s, j) \notin set

RECURSIVE skipSlashes(_)
skipSlashes(s) ==
    IF At(s, 1) \in {"/", "\\"} THEN skipSlashes(Drop(s, 1)) ELSE s

\* host state: position of the ":" that ends the host (a ":" between "["
\* and "]" belongs to the host), Len(hp) + 1 if there is none
RECURSIVE hostEnd(_, _, _)
hostEnd(hp, i, insideBrackets) ==
    IF i > Len(hp) THEN i
    ELSE IF At(hp, i) = ":" /\ ~insideBrackets THEN i
    ELSE hostEnd(hp, i + 1,
                 IF At(hp, i) = "[" THEN TRUE
                 ELSE IF At(hp, i) = "]" THEN FALSE
                 ELSE insideBrackets)

RECURSIVE stripLeadingZeros(_)
stripLeadingZeros(s) ==
    IF Len(s) > 1 /\ At(s, 1) = "0" THEN stripLeadingZeros(Drop(s, 1)) ELSE s

PortFailure == [ok |-> FALSE, port |-> ""]

portOf(digits, scheme) ==
    IF Len(digits) > 5 THEN PortFailure
    ELSE IF parseInt(digits, 10) > 65535 THEN PortFailure
    ELSE [ok |-> TRUE, port |-> IF digits = defaultPort(scheme) THEN "" ELSE digits]

\* port state: digits only, at most 65535; the default port is dropped
parsePort(text, scheme) ==
    IF \E i \in 1..Len(text) : ~IsDigit(At(text, i)) THEN PortFailure
    ELSE IF text = "" THEN [ok |-> TRUE, port |-> ""]
    ELSE portOf(stripLeadingZeros(text), scheme)

hostAndPort(scheme, host, port, rest) ==
    IF ~host.ok \/ ~port.ok THEN URLFailure
    ELSE URLOk(scheme, host.host, port.port, rest)

\* host state and port state on the authority without its credentials
parseHostPort(scheme, hp, colon, atSignSeen, rest) ==
    IF atSignSeen /\ hp = "" THEN URLFailure
    ELSE IF colon = 1 /\ (scheme \in SpecialSchemes \/ colon <= Len(hp)) THEN URLFailure
    ELSE hostAndPort(scheme,
                     parseHost(Take(hp, colon - 1), scheme \notin SpecialSchemes),
                     parsePort(Drop(hp, colon), scheme),
                     rest)

withoutCredentials(scheme, hp, atSignSeen, rest) ==
    parseHostPort(scheme, hp, hostEnd(hp, 1, FALSE), atSignSeen, rest)

UpperHexDigits == "0123456789ABCDEF"

\* code point of a printable ASCII character
charCode(c) ==
    IF includes(AsciiLow, c) THEN indexOf(AsciiLow, c) + 31
    ELSE indexOf(AsciiHigh, c) + 96

percentEncoded(c) ==
    "%" \o At(UpperHexDigits, (charCode(c) \div 16) + 1)
        \o At(UpperHexDigits, (charCode(c) % 16) + 1)

\* percent-encode after encode: the characters of encodeSet become %XX
RECURSIVE percentEncode(_, _)
percentEncode(s, encodeSet) ==
    IF Len(s) = 0 THEN ""
    ELSE (IF At(s, 1) \in encodeSet THEN percentEncoded(At(s, 1)) ELSE At(s, 1))
         \o percentEncode(Drop(s, 1), encodeSet)

\* the printable ASCII part of the percent-encode sets
QueryPercentEncodeSet == {" ", "\"", "#", "<", ">"}

PathPercentEncodeSet == QueryPercentEncodeSet \cup {"?", "^", "{", "}"}

UserinfoPercentEncodeSet ==
    PathPercentEncodeSet \cup {"/", ":", ";", "=", "@", "[", "\\", "]", "|"}

\* the credentials in front of the last "@": username up to the first ":",
\* password after it
credentialsSplit(u, cred, colon) ==
    [u EXCEPT !.username =
                  percentEncode(IF colon = 0 THEN cred ELSE Take(cred, colon - 1),
                                UserinfoPercentEncodeSet),
              !.password =
                  percentEncode(IF colon = 0 THEN "" ELSE Drop(cred, colon),
                                UserinfoPercentEncodeSet)]

withCredentials(u, cred) ==
    IF ~u.ok \/ cred = "" THEN u ELSE credentialsSplit(u, cred, indexOf(cred, ":"))

\* authority state: what precedes the last "@" is the credentials
parseAuthority(scheme, authority, rest) ==
    withCredentials(
        withoutCredentials(scheme, Drop(authority, lastIndexOf(authority, "@")),
                           includes(authority, "@"), rest),
        Take(authority, lastIndexOf(authority, "@") - 1))

cutAuthority(scheme, text, stop) ==
    parseAuthority(scheme, Take(text, stop - 1), Drop(text, stop - 1))

authorityOf(scheme, text, stops) == cutAuthority(scheme, text, firstIndexIn(text, stops))

fileHost(host, rest) ==
    IF ~host.ok THEN URLFailure
    ELSE URLOk("file", IF host.host = "localhost" THEN "" ELSE host.host, "", rest)

\* file host state on what follows the two slashes
parseFileHost(body, stop) ==
    IF stop = 3 /\ IsAlpha(At(body, 1)) /\ At(body, 2) \in {":", "|"}
    THEN URLOk("file", "", "", body)
    ELSE IF stop = 1 THEN URLOk("file", "", "", body)
    ELSE fileHost(parseHost(Take(body, stop - 1), FALSE), Drop(body, stop - 1))

fileBody(body) == parseFileHost(body, firstIndexIn(body, {"/", "\\", "?", "#"}))

\* file state and file slash state
parseFile(rest) ==
    IF At(rest, 1) \in {"/", "\\"} /\ At(rest, 2) \in {"/", "\\"}
    THEN fileBody(Drop(rest, 2))
    ELSE URLOk("file", "", "", rest)

\* what follows "scheme:"
afterScheme(scheme, rest) ==
    IF scheme = "file" THEN parseFile(rest)
    ELSE IF scheme \in SpecialSchemes
         THEN authorityOf(scheme, skipSlashes(rest), {"/", "\\", "?", "#"})
    ELSE IF startsWith(rest, "//") THEN authorityOf(scheme, Drop(rest, 2), {"/", "?", "#"})
    ELSE URLHostless(scheme, rest)

\* scheme start state and scheme state; colon is the position of the first ":"
parseScheme(s, colon) ==
    IF colon = 0 THEN URLFailure
    ELSE IF ~IsAlpha(At(s, 1)) THEN URLFailure
    ELSE IF \E i \in 1..(colon - 1) : ~IsSchemeChar(At(s, i)) THEN URLFailure
    ELSE afterScheme(toLowerCase(Take(s, colon - 1)), Drop(s, colon))

stripped(s) == parseScheme(s, indexOf(s, ":"))

\* leading and trailing C0 control or space are removed first
parseURL(input) == stripped(trim(input))

-----------------------------------------------------------------------------
(* Path, query and serialisation of a parsed URL (path state, query state,  *)
(* "URL serializer"), and its searchParams (URLSearchParams)                *)

\* what precedes the first "#"
beforeFragment(rest) ==
    IF includes(rest, "#") THEN Take(rest, indexOf(rest, "#") - 1) ELSE rest

\* the path as written: what precedes the first "?" and the first "#"
rawPathOf(noFragment) ==
    IF includes(noFragment, "?") THEN Take(noFragment, indexOf(noFragment, "?") - 1)
    ELSE noFragment

rawPath(rest) == rawPathOf(beforeFragment(rest))

\* the query as written: what lies between the first "?" and the first "#"
rawQueryOf(noFragment) ==
    IF includes(noFragment, "?") THEN Drop(noFragment, indexOf(noFragment, "?"))
    ELSE ""

rawQuery(rest) == rawQueryOf(beforeFragment(rest))

RECURSIVE backslashToSlash(_)
backslashToSlash(s) ==
    IF Len(s) = 0 THEN ""
    ELSE (IF At(s, 1) = "\\" THEN "/" ELSE At(s, 1)) \o backslashToSlash(Drop(s, 1))

isSingleDot(segment) == toLowerCase(segment) \in {".", "%2e"}

isDoubleDot(segment) == toLowerCase(segment) \in {"..", ".%2e", "%2e.", "%2e%2e"}

\* "shorten a URL's path"
shorten(path) == IF Len(path) = 0 THEN path ELSE SubSeq(path, 1, Len(path) - 1)

\* path state over the segments between slashes: ".." removes the last
\* segment, "." is skipped, both leave an empty segment when they come last
RECURSIVE pathList(_, _, _)
pathList(segments, i, path) ==
    IF i > Len(segments) THEN path
    ELSE IF isDoubleDot(segments[i])
         THEN pathList(segments, i + 1,
                       IF i = Len(segments) THEN Append(shorten(path), "")
                       ELSE shorten(path))
    ELSE IF isSingleDot(segments[i])
         THEN pathList(segments, i + 1,
                       IF i = Len(segments) THEN Append(path, "") ELSE path)
    ELSE pathList(segments, i + 1,
                  Append(path, percentEncode(segments[i], PathPercentEncodeSet)))

RECURSIVE joinPath(_)
joinPath(path) ==
    IF Len(path) = 0 THEN "" ELSE "/" \o Head(path) \o joinPath(Tail(path))

\* path start state: one leading slash opens the first segment
listPath(raw) ==
    joinPath(pathList(split(IF startsWith(raw, "/") THEN Drop(raw, 1) ELSE raw, "/"),
                      1, <<>>))

\* urlObj.pathname
pathnameOf(urlObj, raw) ==
    IF urlObj.protocol \in {sch \o ":" : sch \in SpecialSchemes}
    THEN listPath(backslashToSlash(raw))
    ELSE IF raw = "" THEN ""
    ELSE IF startsWith(raw, "/") THEN listPath(raw)
    ELSE IF urlObj.hostless THEN raw
    ELSE listPath(raw)

pathname(urlObj) == pathnameOf(urlObj, rawPath(urlObj.rest))

RECURSIVE plusToSpace(_)
plusToSpace(s) ==
    IF Len(s) = 0 THEN ""
    ELSE (IF At(s, 1) = "+" THEN " " ELSE At(s, 1)) \o plusToSpace(Drop(s, 1))

\* a name or a value of application/x-www-form-urlencoded data, decoded
formDecode(s) == percentDecode(plusToSpace(s)).text

\* one "name=value" sequence: the name ends at the first "="
formPair(piece) ==
    IF includes(piece, "=")
    THEN [name |-> formDecode(Take(piece, indexOf(piece, "=") - 1)),
          value |-> formDecode(Drop(piece, indexOf(piece, "=")))]
    ELSE [name |-> formDecode(piece), value |-> ""]

\* application/x-www-form-urlencoded parser: empty sequences are skipped
RECURSIVE formPairs(_, _)
formPairs(pieces, i) ==
    IF i > Len(pieces) THEN <<>>
    ELSE IF pieces[i] = "" THEN formPairs(pieces, i + 1)
    ELSE <<formPair(pieces[i])>> \o formPairs(pieces, i + 1)

\* urlObj.searchParams: the list of name-value pairs of the query
searchParams(urlObj) == formPairs(split(rawQuery(urlObj.rest), "&"), 1)

\* the characters the form serializer leaves as they are
FormSafe == {"*", "-", ".", "_"}

\* a serializer that leaves "%" as it is
RECURSIVE formEncode_keepsPercent(_)
formEncode_keepsPercent(s) ==
    IF Len(s) = 0 THEN ""
    ELSE (IF IsAlpha(At(s, 1)) \/ IsDigit(At(s, 1)) \/ At(s, 1) \in FormSafe \cup {"%"}
          THEN At(s, 1)
          ELSE IF At(s, 1) = " " THEN "+"
          ELSE percentEncoded(At(s, 1)))
         \o formEncode_keepsPercent(Drop(s, 1))

RECURSIVE formEncode(_)
formEncode(s) ==
    IF Len(s) = 0 THEN ""
    ELSE (IF IsAlpha(At(s, 1)) \/ IsDigit(At(s, 1)) \/ At(s, 1) \in FormSafe
          THEN At(s, 1)
          ELSE IF At(s, 1) = " " THEN "+"
          ELSE percentEncoded(At(s, 1)))
         \o formEncode(Drop(s, 1))

\* application/x-www-form-urlencoded serializer
RECURSIVE serializeForm(_)
serializeForm(list) ==
    IF Len(list) = 0 THEN ""
    ELSE formEncode(Head(list).name) \o "=" \o formEncode(Head(list).value)
         \o (IF Len(list) = 1 THEN "" ELSE "&" \o serializeForm(Tail(list)))

\* a delete that stops at the first pair of that name
RECURSIVE deleteParam_firstOnly(_, _)
deleteParam_firstOnly(list, name) ==
    IF Len(list) = 0 THEN <<>>
    ELSE IF Head(list).name = name THEN Tail(list)
    ELSE <<Head(list)>> \o deleteParam_firstOnly(Tail(list), name)

\* searchParams.delete(name): every pair of that name goes
RECURSIVE deleteParam(_, _)
deleteParam(list, name) ==
    IF Len(list) = 0 THEN <<>>
    ELSE (IF Head(list).name = name THEN <<>> ELSE <<Head(list)>>)
         \o deleteParam(Tail(list), name)

\* "user:password@", empty without credentials
userinfo(urlObj) ==
    IF urlObj.username = "" /\ urlObj.password = "" THEN ""
    ELSE urlObj.username
         \o (IF urlObj.password = "" THEN "" ELSE ":" \o urlObj.password)
         \o "@"

\* urlObj.host
hostOf(urlObj) ==
    urlObj.hostname \o (IF urlObj.port = "" THEN "" ELSE ":" \o urlObj.port)

\* urlObj.toString() once the fragment is null and the query is the
\* serialisation of the list (null when that is empty)
toStringWith(urlObj, query) ==
    urlObj.protocol
    \o (IF urlObj.hostless THEN "" ELSE "//" \o userinfo(urlObj) \o hostOf(urlObj))
    \o pathname(urlObj)
    \o (IF query = "" THEN "" ELSE "?" \o query)

-----------------------------------------------------------------------------
(* utils/ssrfProtection.js                                                  *)

ALLOWED_DOMAINS == <<"imgur.com", "postimg.cc", "gravatar.com">>

\* PRIVATE_IP_RANGES: a list of prefix patterns; no function reads it
PRIVATE_IP_RANGES ==
    {"127.", "10.", "192.168.", "169.254.", "0.", "224.", "240."}
    \cup {"172." \o decimalString(n) \o "." : n \in 16..31}

MsgRequired == "La URL es requerida"

MsgEmpty == "La URL no puede estar vacia"

MsgInvalid == "URL invalida. Verifica el formato"

MsgProtocol == "Solo se permiten URLs con protocolo HTTP o HTTPS"

MsgIP == "No se permiten direcciones IP directas. Usa un dominio valido"

MsgDomain == "Dominio no permitido. Usa uno de: imgur.com, postimg.cc, gravatar.com"

MsgSuspicious == "URL contiene patrones sospechosos"

\* { valid: true } carries no message
NoMessage == ""

Valid == [valid |-> TRUE, message |-> NoMessage]

Rejected(msg) == [valid |-> FALSE, message |-> msg]

\* /^(\d{1,3}\.){3}\d{1,3}$/
fourShortDigitGroups(parts) ==
    /\ Len(parts) = 4
    /\ \A i \in 1..4 :
          Len(parts[i]) \in 1..3 /\ \A j \in 1..Len(parts[i]) : IsDigit(At(parts[i], j))

ipv4Pattern(hostname) == fourShortDigitGroups(split(hostname, "."))

\* /^([0-9a-f]{0,4}:){2,7}[0-9a-f]{0,4}$/i
shortHexGroups(groups) ==
    /\ Len(groups) - 1 \in 2..7
    /\ \A i \in 1..Len(groups) :
          Len(groups[i]) <= 4 /\ \A j \in 1..Len(groups[i]) : IsHexDigit(At(groups[i], j))

ipv6Pattern(hostname) == shortHexGroups(split(hostname, ":"))

\* parts.every(part => { const num = parseInt(part, 10); ... })
octetsInRange(parts) ==
    \A i \in 1..Len(parts) : parseInt(parts[i], 10) >= 0 /\ parseInt(parts[i], 10) <= 255

\* isIPAddress with the octet test written as num > 0
isIPAddress_positiveOctets(hostname) ==
    IF ipv4Pattern(hostname)
    THEN \A i \in 1..4 : parseInt(split(hostname, ".")[i], 10) > 0
                            /\ parseInt(split(hostname, ".")[i], 10) <= 255
    ELSE ipv6Pattern(hostname)

isIPAddress(hostname) ==
    IF ipv4Pattern(hostname)
    THEN octetsInRange(split(hostname, "."))
    ELSE ipv6Pattern(hostname)

\* /:22[^0-9]/ and /:23[^0-9]/ : the port digits followed by one more
\* character that is not a digit
portThenNonDigit(text, port) ==
    \E i \in 1..Len(text) :
        /\ startsWith(Drop(text, i - 1), port)
        /\ At(text, i + Len(port)) # ""
        /\ ~IsDigit(At(text, i + Len(port)))

\* "%" followed by `lead` and then n hexadecimal digits
percentThenHex(text, lead, n) ==
    \E i \in 1..Len(text) :
        /\ startsWith(Drop(text, i - 1), "%" \o lead)
        /\ \A k \in 1..n : IsHexDigit(At(text, i + Len(lead) + k))

\* /\\u[0-9a-f]{4}/i
unicodeEscape(text) ==
    \E i \in 1..Len(text) :
        /\ At(text, i) = "\\"
        /\ At(text, i + 1) \in {"u", "U"}
        /\ \A k \in 1..4 : IsHexDigit(At(text, i + 1 + k))

hasWord(lower) ==
    \/ includes(lower, "localhost")
    \/ includes(lower, "internal")
    \/ includes(lower, "admin")
    \/ includes(lower, "management")

\* /localhost/i, /internal/i, /admin/i, /management/i
containsWord(text) == hasWord(toLowerCase(text))

\* the pattern list with the word patterns lacking the i flag
containsSuspiciousPatterns_caseSensitive(text) ==
    \/ percentThenHex(text, "", 2)
    \/ percentThenHex(text, "25", 2)
    \/ unicodeEscape(text)
    \/ hasWord(text)
    \/ portThenNonDigit(text, ":22")
    \/ portThenNonDigit(text, ":23")
    \/ includes(text, ":3389")
    \/ includes(text, ":5432")
    \/ includes(text, ":3306")
    \/ includes(text, ":6379")
    \/ includes(text, ":27017")

containsSuspiciousPatterns(text) ==
    \/ percentThenHex(text, "", 2)
    \/ percentThenHex(text, "25", 2)
    \/ unicodeEscape(text)
    \/ containsWord(text)
    \/ portThenNonDigit(text, ":22")
    \/ portThenNonDigit(text, ":23")
    \/ includes(text, ":3389")
    \/ includes(text, ":5432")
    \/ includes(text, ":3306")
    \/ includes(text, ":6379")
    \/ includes(text, ":27017")

\* the comparison without its equality half
matchesDomain_subdomainOnly(hostname, normalizedDomain) ==
    endsWith(hostname, "." \o normalizedDomain)

matchesDomain(hostname, normalizedDomain) ==
    hostname = normalizedDomain \/ endsWith(hostname, "." \o normalizedDomain)

\* the allow-list test with its result negated
domainAllowed_negated(hostname) ==
    ~\E k \in 1..Len(ALLOWED_DOMAINS) :
        matchesDomain(hostname, toLowerCase(ALLOWED_DOMAINS[k]))

\* the allow-list test without the subdomain alternative
domainAllowed_exactOnly(hostname) ==
    \E k \in 1..Len(ALLOWED_DOMAINS) : hostname = toLowerCase(ALLOWED_DOMAINS[k])

\* ALLOWED_DOMAINS.some(domain => hostname === d || hostname.endsWith('.' + d))
domainAllowed(hostname) ==
    \E k \in 1..Len(ALLOWED_DOMAINS) :
        matchesDomain(hostname, toLowerCase(ALLOWED_DOMAINS[k]))

\* the protocol list with 'ftp:' added
protocolAllowed_withFtp(protocol) == protocol \in {"http:", "https:", "ftp:"}

\* ['http:', 'https:'].includes(urlObj.protocol)
protocolAllowed(protocol) == protocol \in {"http:", "https:"}

\* the host checks and the scan with the scan placed first
checkHost_scanFirst(trimmed, hostname) ==
    IF containsSuspiciousPatterns(trimmed) THEN Rejected(MsgSuspicious)
    ELSE IF isIPAddress(hostname) THEN Rejected(MsgIP)
    ELSE IF ~domainAllowed(hostname) THEN Rejected(MsgDomain)
    ELSE Valid

\* validateAvatarUrl from the hostname on: IP literal, allow-list, scan
checkHost(trimmed, hostname) ==
    IF isIPAddress(hostname) THEN Rejected(MsgIP)
    ELSE IF ~domainAllowed(hostname) THEN Rejected(MsgDomain)
    ELSE IF containsSuspiciousPatterns(trimmed) THEN Rejected(MsgSuspicious)
    ELSE Valid

\* where the authority of the text begins: behind the first "://", when no
\* path, query or fragment begins before it; 0 when there is none
writtenAuthorityStart(text) ==
    IF indexOf(text, "://") = 0 \/ firstIndexIn(text, {"/", "?", "#"}) < indexOf(text, "://") + 1
    THEN 0
    ELSE indexOf(text, "://") + 3

\* the authority as written: up to the first / ? # or backslash
writtenAuthority(text) ==
    IF writtenAuthorityStart(text) = 0 THEN ""
    ELSE Take(Drop(text, writtenAuthorityStart(text) - 1),
              firstIndexIn(Drop(text, writtenAuthorityStart(text) - 1),
                           {"/", "?", "#", "\\"}) - 1)

\* host and port as written: the authority behind its credentials
writtenHostPort(text) ==
    Drop(writtenAuthority(text), lastIndexOf(writtenAuthority(text), "@"))

\* the host as written, without the port
writtenHost(text) ==
    IF startsWith(writtenHostPort(text), "[") /\ includes(writtenHostPort(text), "]")
    THEN Take(writtenHostPort(text), indexOf(writtenHostPort(text), "]"))
    ELSE IF ~includes(writtenHostPort(text), ":") THEN writtenHostPort(text)
    ELSE Take(writtenHostPort(text), indexOf(writtenHostPort(text), ":") - 1)

\* a validator that compares the host as the text spells it
checkParsed_hostAsWritten(trimmed, urlObj) ==
    IF ~urlObj.ok THEN Rejected(MsgInvalid)
    ELSE IF ~protocolAllowed(urlObj.protocol) THEN Rejected(MsgProtocol)
    ELSE checkHost(trimmed, writtenHost(trimmed))

\* validateAvatarUrl from the parsed URL on: protocol, then the host checks
checkParsed(trimmed, urlObj) ==
    IF ~urlObj.ok THEN Rejected(MsgInvalid)
    ELSE IF ~protocolAllowed(urlObj.protocol) THEN Rejected(MsgProtocol)
    ELSE checkHost(trimmed, toLowerCase(urlObj.hostname))

\* validateAvatarUrl from the trimmed argument on
checkTrimmed(trimmed) ==
    IF trimmed = "" THEN Rejected(MsgEmpty)
    ELSE checkParsed(trimmed, parseURL(trimmed))

\* a validator that never calls url.trim()
validateAvatarUrl_noTrim(arg) ==
    IF arg = "" THEN Rejected(MsgRequired)
    ELSE checkTrimmed(arg)

validateAvatarUrl(arg) ==
    IF arg = "" THEN Rejected(MsgRequired)
    ELSE checkTrimmed(trim(arg))

\* values of other types a caller may pass (undefined, null, 0, a non-zero
\* number, false, true, an object)
NonStringKinds == {"undefined", "null", "zero", "number", "false", "true", "object"}

\* the non-strings for which !value holds
FalsyKinds == {"undefined", "null", "zero", "false"}

\* a TypeError leaves the function (value.trim is not a function)
Raised == [valid |-> FALSE, message |-> "(TypeError)"]

\* the guard without its typeof half: a truthy non-string reaches url.trim()
validateAvatarUrlOf_noTypeof(kind, arg) ==
    IF kind \in FalsyKinds THEN Rejected(MsgRequired)
    ELSE IF kind # "string" THEN Raised
    ELSE validateAvatarUrl(arg)

\* validateAvatarUrl on a value of any type: !url || typeof url !== 'string'
validateAvatarUrlOf(kind, arg) ==
    IF kind # "string" THEN Rejected(MsgRequired)
    ELSE validateAvatarUrl(arg)

dangerousParams == <<"redirect", "callback", "return", "url", "next">>

\* dangerousParams.forEach(param => urlObj.searchParams.delete(param))
RECURSIVE deleteEach(_, _, _)
deleteEach(list, params, i) ==
    IF i > Len(params) THEN list
    ELSE deleteEach(deleteParam(list, params[i]), params, i + 1)

\* the try block once new URL has returned
sanitizeParsed(urlObj) ==
    toStringWith(urlObj, serializeForm(deleteEach(searchParams(urlObj), dangerousParams, 1)))

\* try { new URL(url.trim()) ... } catch { return url.trim() }
sanitizeTrimmed(trimmed, urlObj) ==
    IF ~urlObj.ok THEN trimmed ELSE sanitizeParsed(urlObj)

\* a catch block that returns url instead of url.trim()
sanitizeUrl_untrimmed(arg) ==
    IF arg = "" THEN ""
    ELSE sanitizeTrimmed(arg, parseURL(trim(arg)))

sanitizeUrl(arg) ==
    IF arg = "" THEN ""
    ELSE sanitizeTrimmed(trim(arg), parseURL(trim(arg)))

\* how a call that returns a string ended
Returns(value) == [threw |-> FALSE, value |-> value]

Throws == [threw |-> TRUE, value |-> ""]

\* sanitizeUrl on a value of any type: a falsy value gives '', a truthy
\* non-string has no trim method, in the try block and in the catch block
sanitizeUrlOf(kind, arg) ==
    IF kind \in FalsyKinds THEN Returns("")
    ELSE IF kind # "string" THEN Throws
    ELSE Returns(sanitizeUrl(arg))

createPreviewUrl(arg) ==
    IF ~validateAvatarUrl(arg).valid THEN "" ELSE sanitizeUrl(arg)

\* a preview function without the validation step
createPreviewUrlOf_unchecked(kind, arg) == sanitizeUrlOf(kind, arg)

\* createPreviewUrl on a value of any type: a non-string is rejected by the
\* validator before sanitizeUrl can reach its trim call
createPreviewUrlOf(kind, arg) ==
    IF ~validateAvatarUrlOf(kind, arg).valid THEN Returns("")
    ELSE sanitizeUrlOf(kind, arg)

-----------------------------------------------------------------------------
(* utils/auth.js: the session in localStorage.  A stored item is a record;  *)
(* a JWT is its payload (exp, role) or a text whose payload does not parse  *)

TOKEN_KEY == "mediclab_token"

USER_KEY == "mediclab_user"

\* the keys the frontend uses: those of auth.js and the one App removes
StorageKeys == {TOKEN_KEY, USER_KEY, "token"}

\* localStorage.getItem gives null
Absent == [kind |-> "absent", parsable |-> FALSE, exp |-> 0, role |-> "null"]

Roles == {"patient", "doctor", "admin"}

\* a JWT whose payload holds exp and role
Token(exp, role) == [kind |-> "token", parsable |-> TRUE, exp |-> exp, role |-> role]

\* JSON.stringify(user) of the login response
UserData(role) == [kind |-> "user", parsable |-> TRUE, exp |-> 0, role |-> role]

EmptyStorage == [k \in StorageKeys |-> Absent]

getToken(st) == st[TOKEN_KEY]

\* removeToken without its second removeItem
removeToken_tokenOnly(st) == [st EXCEPT ![TOKEN_KEY] = Absent]

removeToken(st) == [st EXCEPT ![TOKEN_KEY] = Absent, ![USER_KEY] = Absent]

getUser(st) == st[USER_KEY]

\* login(token, user): setToken, then setUser
login(st, token, user) == [st EXCEPT ![TOKEN_KEY] = token, ![USER_KEY] = user]

logout(st) == removeToken(st)

\* a validity test that never looks at exp
isTokenValid_noExpiry(tokenToCheck, currentTime) ==
    IF tokenToCheck = Absent THEN FALSE
    ELSE tokenToCheck.parsable

\* isTokenValid once tokenToCheck is known: no token, a payload that does
\* not parse, payload.exp && payload.exp < currentTime
isTokenValid(tokenToCheck, currentTime) ==
    IF tokenToCheck = Absent THEN FALSE
    ELSE IF ~tokenToCheck.parsable THEN FALSE
    ELSE IF tokenToCheck.exp # 0 /\ tokenToCheck.exp < currentTime THEN FALSE
    ELSE TRUE

\* token && isTokenValid(token): null when there is no token, else a boolean
isAuthenticated(st, currentTime) ==
    IF getToken(st) = Absent THEN "null"
    ELSE IF isTokenValid(getToken(st), currentTime) THEN "true"
    ELSE "false"

\* getCurrentUser returns null
NoUser == [kind |-> "null", parsable |-> FALSE, exp |-> 0, role |-> "null"]

\* the user built from the token payload: null when the payload does not parse
userFromPayload(token) ==
    IF ~token.parsable THEN NoUser ELSE UserData(token.role)

getCurrentUser(st, currentTime) ==
    IF isAuthenticated(st, currentTime) # "true" THEN NoUser
    ELSE IF getUser(st) # Absent THEN getUser(st)
    ELSE userFromPayload(getToken(st))

\* user?.role || null
getUserRole(st, currentTime) == getCurrentUser(st, currentTime).role

-----------------------------------------------------------------------------
(* components/auth/Register: the checks of the registration form            *)

Fields == {"email", "password", "confirmPassword", "first_name", "last_name"}

\* useState({ email: '', password: '', ... })
EmptyForm == [f \in Fields |-> ""]

\* the characters of the class [!@#$%^&*(),.?":{}|<>]
SpecialSymbols == "!@#$%^&*(),.?\":{}|<>"

\* regexp.test(s) for a regexp that is one character class
hasCharOf(s, class) == \E i \in 1..Len(s) : includes(class, At(s, i))

\* validatePasswordStrength(password).score: one point for each test passed
passwordScore(password) ==
    (IF Len(password) >= 8 THEN 1 ELSE 0)
    + (IF hasCharOf(password, LowerAlpha) THEN 1 ELSE 0)
    + (IF hasCharOf(password, UpperAlpha) THEN 1 ELSE 0)
    + (IF hasCharOf(password, Digits) THEN 1 ELSE 0)
    + (IF hasCharOf(password, SpecialSymbols) THEN 1 ELSE 0)

\* /^[^\s@]+@[^\s@]+\.[^\s@]+$/.test(email)
emailMatches(email) ==
    /\ ~hasCharOf(email, " ")
    /\ indexOf(email, "@") > 1
    /\ indexOf(email, "@") = lastIndexOf(email, "@")
    /\ \E i \in (indexOf(email, "@") + 2)..(Len(email) - 1) : At(email, i) = "."

\* a name field: required, and two characters at least after trimming
nameError(name) == trim(name) = "" \/ Len(trim(name)) < 2

\* validateForm: the keys of newErrors
newErrors(form) ==
    {f \in {"first_name", "last_name"} : nameError(form[f])}
    \cup {f \in {"email"} : trim(form.email) = "" \/ ~emailMatches(form.email)}
    \cup {f \in {"password"} : form.password = "" \/ passwordScore(form.password) < 4}
    \cup {f \in {"confirmPassword"} :
             form.confirmPassword = "" \/ form.password # form.confirmPassword}

-----------------------------------------------------------------------------
(* The exported functions as they read the ALLOWED_DOMAINS array: list is   *)
(* what the array holds when the call runs                                  *)

\* list.join(', ')
RECURSIVE join(_, _)
join(list, sep) ==
    IF Len(list) = 0 THEN ""
    ELSE IF Len(list) = 1 THEN Head(list)
    ELSE Head(list) \o sep \o join(Tail(list), sep)

\* list.some(domain => hostname === d || hostname.endsWith('.' + d))
domainAllowedIn(list, hostname) ==
    \E k \in 1..Len(list) : matchesDomain(hostname, toLowerCase(list[k]))

checkHostWith(list, trimmed, hostname) ==
    IF isIPAddress(hostname) THEN Rejected(MsgIP)
    ELSE IF ~domainAllowedIn(list, hostname)
         THEN Rejected("Dominio no permitido. Usa uno de: " \o join(list, ", "))
    ELSE IF containsSuspiciousPatterns(trimmed) THEN Rejected(MsgSuspicious)
    ELSE Valid

checkParsedWith(list, trimmed, urlObj) ==
    IF ~urlObj.ok THEN Rejected(MsgInvalid)
    ELSE IF ~protocolAllowed(urlObj.protocol) THEN Rejected(MsgProtocol)
    ELSE checkHostWith(list, trimmed, toLowerCase(urlObj.hostname))

\* validateAvatarUrl(arg) while the array holds list
validateAvatarUrlWith(list, arg) ==
    IF arg = "" THEN Rejected(MsgRequired)
    ELSE IF trim(arg) = "" THEN Rejected(MsgEmpty)
    ELSE checkParsedWith(list, trim(arg), parseURL(trim(arg)))

\* isAllowedDomain(arg) while the array holds list; false when new URL throws
isAllowedDomainParsed(list, urlObj) ==
    urlObj.ok /\ domainAllowedIn(list, toLowerCase(urlObj.hostname))

isAllowedDomain(list, arg) == isAllowedDomainParsed(list, parseURL(arg))

MsgUrlRequired == "URL requerida"

MsgNoIP == "No se permiten direcciones IP. Usa un nombre de dominio valido."

MsgBadFormat == "Formato de URL invalido"

MsgSecurity == "URL no valida por razones de seguridad"

errorMessageForHost(list, hostname) ==
    IF isIPAddress(hostname) THEN MsgNoIP
    ELSE IF ~domainAllowedIn(list, hostname)
         THEN "Dominio no permitido. Solo se permiten: " \o join(list, ", ")
    ELSE MsgSecurity

errorMessageParsed(list, urlObj) ==
    IF ~urlObj.ok THEN MsgBadFormat
    ELSE errorMessageForHost(list, toLowerCase(urlObj.hostname))

\* getSSRFErrorMessage(arg) while the array holds list
getSSRFErrorMessage(list, arg) ==
    IF arg = "" THEN MsgUrlRequired
    ELSE errorMessageParsed(list, parseURL(arg))

\* the functions a caller can import and call
Functions == {"validateAvatarUrl", "sanitizeUrl", "isAllowedDomain", "getSSRFErrorMessage"}

\* the array after a call that takes its first element out
arrayAfter_shift(fn, list) ==
    IF fn = "validateAvatarUrl" /\ Len(list) > 0 THEN Tail(list) ELSE list

\* the array after a call of fn: some() and join() only read it, and
\* sanitizeUrl does not touch it
arrayAfter(fn, list) == list

-----------------------------------------------------------------------------
(* The backend validator as the admin dashboard documents it                *)
(* (validate_avatar_url, Python)                                            *)

allowed_domains == <<"imgur.com", "postimg.cc", "gravatar.com">>

\* url.startswith(('http://', 'https://'))
schemeAccepted(u) == startsWith(u, "http://") \/ startsWith(u, "https://")

\* parsed.hostname in allowed_domains: membership in the list, no subdomains
hostnameListed(hostname) ==
    \E k \in 1..Len(allowed_domains) : hostname = allowed_domains[k]

\* validate_avatar_url returns True; the DNS answer is the environment's:
\* resolvesPublic tells whether the name resolved to a public address
validate_avatar_url(u, hostname, resolvesPublic) ==
    /\ schemeAccepted(u)
    /\ resolvesPublic
    /\ hostnameListed(hostname)

-----------------------------------------------------------------------------
(* Arguments the callers pass, drawn from bounded families                  *)

\* largest number of blanks put before and after an argument
MaxPad == 1

\* largest number of "a." labels put in front of a domain
MaxSubdomainDepth == 1

RECURSIVE Repeat(_, _)
Repeat(s, n) == IF n = 0 THEN "" ELSE s \o Repeat(s, n - 1)

AllowedDomainSet == {ALLOWED_DOMAINS[k] : k \in 1..Len(ALLOWED_DOMAINS)}

Schemes == {"http", "https", "ftp"}

WebSchemes == {"http", "https"}

SubdomainPrefixes == {Repeat("a.", k) : k \in 0..MaxSubdomainDepth}

OtherPrefixes == {"evil", ".", "I."}

DomainHosts ==
    {p \o d : p \in SubdomainPrefixes \cup OtherPrefixes,
              d \in AllowedDomainSet \cup {"example.com"}}
    \cup {"localhost", "imgur.com.", "imgur.com.evil.net", "internal.server.com",
          "%69mgur.com", "admin@imgur.com", "IMGUR.COM"}

SensitivePorts == {":22", ":23", ":3389", ":5432", ":3306", ":6379", ":27017"}

OrdinaryPorts == {"", ":80", ":3000", ":8080", ":220", ":33890", ":54321"}

OddPorts == {":0022", ":99999"}

Ports == SensitivePorts \cup OrdinaryPorts \cup OddPorts

\* what may follow the port: nothing, a path, a query, a fragment
ShortTails == {"", "/", "/x", "?q=1", "#top"}

PathTails == {"/f", "/x.jpg", "/admin", "/api", "/file", "/a%20b", "/LocalHost",
              "/p:3306", "/internal/x", "/Management", "/x?next=/y", "/%2561"}

Rests ==
    {p \o t : p \in Ports, t \in ShortTails}
    \cup {p \o t : p \in {"", ":3000", ":8080"}, t \in PathTails}

PublicIPv4Literals == {"8.8.8.8", "172.32.0.1", "255.255.255.255", "1.2.3.4"}

PrivateIPv4Literals ==
    {"127.0.0.1", "10.0.0.5", "172.16.0.1", "192.168.1.1", "169.254.169.254",
     "0.0.0.0", "224.0.0.1", "240.0.0.1"}

IPv4Literals == PublicIPv4Literals \cup PrivateIPv4Literals

IPv6Literals ==
    {"[::1]", "[::]", "[fe80::1]", "[FE80::A]", "[2001:db8::1]",
     "[2001:4860:4860:0:0:0:0:8888]", "[::ffff:127.0.0.1]", "[::ffff:8.8.8.8]"}

\* other spellings of 127.0.0.1, 8.8.8.8 and 192.168.1.1
ObfuscatedIPv4Hosts ==
    {"2130706433", "0x7f000001", "0177.0.0.1", "0x7f.1", "017700000001",
     "134744072", "0x8.0x8.0x8.0x8", "3232235777", "0XC0A80101"}

BrokenIpHosts == {"256.0.0.1", "1.2.3.4.5", "[1::2::3]", "[::1", "4294967296"}

IpHosts == IPv4Literals \cup IPv6Literals \cup ObfuscatedIPv4Hosts \cup BrokenIpHosts

IpRests == {p \o t : p \in {"", ":8080", ":22"}, t \in {"", "/", "/x", "/admin", "?q=1"}}

DomainUrls == {s \o "://" \o h \o r : s \in Schemes, h \in DomainHosts, r \in Rests}

IpUrls == {s \o "://" \o h \o r : s \in Schemes, h \in IpHosts, r \in IpRests}

OtherUrls ==
    {"javascript:alert(1)", "data:text/html,x", "file:///etc/passwd",
     "file://imgur.com/x", "mailto:a@imgur.com", "HTTP://imgur.com/x",
     "Https://A.Gravatar.COM/x", "http:imgur.com/x", "http:/imgur.com/x",
     "https:\\\\imgur.com\\x", "ws://imgur.com/x", "gopher://imgur.com/x"}

Unparsable ==
    {"imgur.com/x", "//imgur.com/x", "http://", "https://:80/x", "://imgur.com",
     "not a url", "1http://imgur.com/x", "http://imgur com/x", "/x.jpg"}

PadSamples ==
    {"", "https://imgur.com/x", "http://a.postimg.cc/x", "https://imgur.com:22",
     "https://gravatar.com/admin", "http://127.0.0.1/x", "ftp://imgur.com/f",
     "not a url", "https://evilimgur.com/x"}

Padded ==
    {Repeat(" ", i) \o u \o Repeat(" ", j) : i \in 0..MaxPad, j \in 0..MaxPad, u \in PadSamples}

\* name-value sequences of a query: the five dangerous names, spellings that
\* decode to one of them, and names that only resemble them
QueryPieces ==
    {"next=1", "url=http://evil.example/", "redirect", "callback=", "return=a b",
     "%6Eext=2", "Next=3", "nexturl=4", "q=a+b", "x=%2561", "a=1=2", ""}

Fragments == {"", "#", "#top", "#next=1"}

QueryUrls ==
    {"https://imgur.com/x?" \o p \o "&" \o q \o f :
        p \in QueryPieces, q \in QueryPieces, f \in Fragments}
    \cup {"https://a.gravatar.com/a/../b/./c?next=1&next=2&q=1#f",
          "http://user:pw@postimg.cc:8080?url=x", "https://imgur.com/x?",
          "javascript:alert(1)?next=1#f", "gopher://imgur.com?callback=f",
          "\tnot a url\n", " http://imgur com/x?next=1#f "}

\* SSRFValidationDemo: exampleUrls.valid and exampleUrls.invalid
ExampleValidUrls ==
    {"https://imgur.com/image.jpg", "https://postimg.cc/photo.png",
     "https://gravatar.com/avatar/123.jpg"}

ExampleInvalidUrls ==
    {"http://127.0.0.1:8080/admin", "https://malicious-site.com/image.jpg",
     "ftp://internal.server.com/file", "http://192.168.1.1/config",
     "https://localhost:3000/api/users"}

\* SSRFProtectionInfo: the panel of blocked URLs
BlockedExampleUrls ==
    {"http://127.0.0.1:8080/admin", "https://malicious-site.com/image.jpg",
     "ftp://internal.server.com/file"}

ExampleUrls == ExampleValidUrls \cup ExampleInvalidUrls \cup BlockedExampleUrls

Inputs ==
    DomainUrls \cup IpUrls \cup OtherUrls \cup Unparsable \cup Padded \cup QueryUrls
    \cup ExampleUrls

-----------------------------------------------------------------------------
(* A call of validateAvatarUrl: the argument the caller passes, and what    *)
(* the call returned                                                        *)

\* the call has not returned yet
NoResult == [valid |-> FALSE, message |-> "(no result)"]

\* sanitizeUrl has not been called
NotCalled == [threw |-> FALSE, value |-> "(not called)"]

\* the argument is a string of Inputs or one of the non-string values
ArgumentChosen ==
    \/ argKind = "string" /\ url \in Inputs
    \/ argKind \in NonStringKinds /\ url = ""

\* no URL has been used yet
NoUse == [kind |-> "none", url |-> ""]

\* the module has been loaded and none of its functions called; nobody is
\* logged in and the Profile page shows its first render
ModuleLoaded ==
    /\ allowedDomains = ALLOWED_DOMAINS
    /\ calls = <<>>
    /\ storedAvatar = ""
    /\ avatarUrl = ""
    /\ isValidUrl = TRUE
    /\ inputValue = ""
    /\ validation = Valid
    /\ previewUrl = ""
    /\ lastUse = NoUse
    /\ loading = TRUE
    /\ updating = FALSE
    /\ updateRequests = <<>>
    /\ imageLoading = FALSE
    /\ imageError = FALSE
    /\ preview = NotCalled
    /\ storage = EmptyStorage
    /\ now = 1
    /\ currentView = "loading"
    /\ userRole = "null"
    /\ lastOp = "none"
    /\ formData = EmptyForm
    /\ errors = {}
    /\ isLoading = FALSE
    /\ registerRequests = <<>>

Init ==
    /\ ArgumentChosen
    /\ result = NoResult
    /\ sanitized = NotCalled
    /\ again = NotCalled
    /\ ModuleLoaded
    /\ serverAvatar = ""

\* validateAvatarUrl(url) runs to its return statement
CallValidateAvatarUrl ==
    /\ result = NoResult
    /\ result' = validateAvatarUrlOf(argKind, url)
    /\ UNCHANGED <<url, argKind, sanitized, again, allowedDomains, calls, pageVars,
                   appVars>>

Next == CallValidateAvatarUrl

Spec == Init /\ [][Next]_vars

-----------------------------------------------------------------------------
(* Calls of sanitizeUrl: on the argument, then on what that call returned   *)

\* sanitizeUrl(url) runs to its return statement or throws
CallSanitizeUrl ==
    /\ sanitized = NotCalled
    /\ sanitized' = sanitizeUrlOf(argKind, url)
    /\ UNCHANGED <<url, argKind, result, again, allowedDomains, calls, pageVars,
                   appVars>>

\* the caller passes the returned string to sanitizeUrl once more
CallSanitizeUrlAgain ==
    /\ sanitized # NotCalled
    /\ ~sanitized.threw
    /\ again = NotCalled
    /\ again' = sanitizeUrlOf("string", sanitized.value)
    /\ UNCHANGED <<url, argKind, result, sanitized, allowedDomains, calls, pageVars,
                   appVars>>

SanitizeNext == CallSanitizeUrl \/ CallSanitizeUrlAgain

SanitizeSpec == Init /\ [][SanitizeNext]_vars

-----------------------------------------------------------------------------
(* A call of createPreviewUrl, and the validator called on the string it    *)
(* returned                                                                 *)

\* createPreviewUrl(url) runs to its return statement
CallCreatePreviewUrl ==
    /\ preview = NotCalled
    /\ preview' = createPreviewUrlOf(argKind, url)
    /\ UNCHANGED <<url, argKind, result, sanitized, again, allowedDomains, calls, pageVars,
                   sessionVars, registerVars>>

\* the caller passes the preview URL it got to validateAvatarUrl
CallValidateAvatarUrlOnPreview ==
    /\ preview # NotCalled
    /\ ~preview.threw
    /\ preview.value # ""
    /\ result = NoResult
    /\ result' = validateAvatarUrlOf("string", preview.value)
    /\ UNCHANGED <<url, argKind, sanitized, again, allowedDomains, calls, pageVars,
                   appVars>>

PreviewNext == CallCreatePreviewUrl \/ CallValidateAvatarUrlOnPreview

PreviewSpec == Init /\ [][PreviewNext]_vars

-----------------------------------------------------------------------------
(* Callers share the loaded module: every call runs to its return (the      *)
(* functions are synchronous) and calls of different callers interleave     *)

\* most calls in one behaviour
MaxCalls == 3

\* the arguments the callers pass
SharedArgs == {"https://imgur.com/x?next=1#f", " https://a.gravatar.com/x ", "https://example.com:22/"}

\* one call that has returned: the function, its argument, and the
\* boolean and the string its return value holds
Call(fn, arg, ok, text) == [fn |-> fn, arg |-> arg, ok |-> ok, text |-> text]

SharedInit ==
    /\ url = ""
    /\ argKind = "string"
    /\ result = NoResult
    /\ sanitized = NotCalled
    /\ again = NotCalled
    /\ ModuleLoaded
    /\ serverAvatar = ""

\* a call of fn returns: it joins the calls that have returned
CallReturns(fn, call) ==
    /\ Len(calls) < MaxCalls
    /\ calls' = Append(calls, call)
    /\ allowedDomains' = arrayAfter(fn, allowedDomains)
    /\ UNCHANGED <<url, argKind, result, sanitized, again, pageVars, appVars>>

SharedValidateAvatarUrl ==
    \E arg \in SharedArgs :
        CallReturns("validateAvatarUrl",
                  Call("validateAvatarUrl", arg,
                       validateAvatarUrlWith(allowedDomains, arg).valid,
                       validateAvatarUrlWith(allowedDomains, arg).message))

SharedSanitizeUrl ==
    \E arg \in SharedArgs :
        CallReturns("sanitizeUrl", Call("sanitizeUrl", arg, TRUE, sanitizeUrl(arg)))

SharedIsAllowedDomain ==
    \E arg \in SharedArgs :
        CallReturns("isAllowedDomain",
                  Call("isAllowedDomain", arg, isAllowedDomain(allowedDomains, arg), ""))

SharedGetSSRFErrorMessage ==
    \E arg \in SharedArgs :
        CallReturns("getSSRFErrorMessage",
                  Call("getSSRFErrorMessage", arg, TRUE,
                       getSSRFErrorMessage(allowedDomains, arg)))

SharedNext ==
    \/ SharedValidateAvatarUrl
    \/ SharedSanitizeUrl
    \/ SharedIsAllowedDomain
    \/ SharedGetSSRFErrorMessage

SharedSpec == SharedInit /\ [][SharedNext]_vars

-----------------------------------------------------------------------------
(* The avatar pages: login stores the user, the header shows the stored     *)
(* avatar, the Profile page edits it through AvatarUrlInput                 *)

\* what the user types into the URL field
TypedUrls ==
    {"", "  ", "https://imgur.com/pic.jpg", "https://imgur.com/a b",
     "http://127.0.0.1/x", " https://a.postimg.cc/p.png?next=1#f "}

\* avatar URLs other clients of the API send to the backend
CandidateAvatars ==
    {"https://imgur.com/pic.jpg", "https://gravatar.com/admin/pic.jpg",
     "https://a.imgur.com/x", "http://127.0.0.1/x"}

\* those of them the backend validator lets pass when the name resolves to
\* a public address
ServerAvatars ==
    {u \in CandidateAvatars : validate_avatar_url(u, toLowerCase(parseURL(u).hostname), TRUE)}

Use(kind, u) == [kind |-> kind, url |-> u]

PagesInit ==
    /\ url = ""
    /\ argKind = "string"
    /\ result = NoResult
    /\ sanitized = NotCalled
    /\ again = NotCalled
    /\ ModuleLoaded
    /\ serverAvatar \in ServerAvatars \cup {""}

\* validateAndSetPreview that leaves the preview of a rejected text alone
ValidateAndSetPreview_keepsPreview(u) ==
    /\ validation' = validateAvatarUrl(u)
    /\ isValidUrl' = validateAvatarUrl(u).valid
    /\ previewUrl' = IF validateAvatarUrl(u).valid THEN createPreviewUrl(u) ELSE previewUrl
    /\ imageError' = FALSE

\* AvatarUrlInput.validateAndSetPreview(u), onValidationChange included
ValidateAndSetPreview(u) ==
    /\ validation' = validateAvatarUrl(u)
    /\ isValidUrl' = validateAvatarUrl(u).valid
    /\ previewUrl' = IF validateAvatarUrl(u).valid THEN createPreviewUrl(u) ELSE ""
    /\ imageError' = FALSE

\* AvatarUrlInput is mounted with the value prop: its initial state, then
\* the effect on value
ValueEffect(value) ==
    /\ inputValue' = value
    /\ imageLoading' = FALSE
    /\ IF value # "" THEN ValidateAndSetPreview(value)
       ELSE /\ previewUrl' = ""
            /\ validation' = Valid
            /\ imageError' = FALSE
            /\ UNCHANGED isValidUrl

\* another client of the API stores an avatar URL the backend accepts
OtherClientUpdatesAvatar ==
    /\ \E u \in ServerAvatars : serverAvatar' = u
    /\ UNCHANGED <<url, argKind, result, sanitized, again, allowedDomains, calls, appVars,
                   storedAvatar, avatarUrl, isValidUrl, inputValue, validation,
                   previewUrl, lastUse, formVars>>

\* Login.handleSubmit: login(access_token, user) stores the user object
HandleSubmitLogin ==
    /\ storedAvatar' = serverAvatar
    /\ UNCHANGED <<url, argKind, result, sanitized, again, allowedDomains, calls, appVars,
                   serverAvatar, avatarUrl, isValidUrl, inputValue, validation,
                   previewUrl, lastUse, formVars>>

\* Header: <img src={currentUser.avatar_url}> when the user has an avatar
HeaderRender ==
    /\ storedAvatar # ""
    /\ lastUse' = Use("header", storedAvatar)
    /\ UNCHANGED <<url, argKind, result, sanitized, again, allowedDomains, calls, appVars,
                   serverAvatar, storedAvatar, avatarUrl, isValidUrl, inputValue,
                   validation, previewUrl, formVars>>

\* Profile.loadUserProfile ends: with the profile, whose avatar becomes the
\* value of the field, or with an error; the form is rendered again in
\* place of the spinner, and handleUpdateAvatar, if it awaited the load,
\* reaches its finally block
LoadUserProfile ==
    /\ loading
    /\ \E ok \in BOOLEAN :
          /\ avatarUrl' = IF ok THEN serverAvatar ELSE avatarUrl
          /\ ValueEffect(IF ok THEN serverAvatar ELSE avatarUrl)
    /\ loading' = FALSE
    /\ updating' = FALSE
    /\ UNCHANGED <<url, argKind, result, sanitized, again, allowedDomains, calls, appVars,
                   serverAvatar, storedAvatar, lastUse, updateRequests>>

\* AvatarUrlInput.handleInputChange: the typed text goes to Profile
\* (onChange), an empty text clears the verdict, and the effect validates
\* every other text
HandleInputChange ==
    /\ ~loading
    /\ ~updating
    /\ \E newValue \in TypedUrls :
          /\ newValue # inputValue
          /\ inputValue' = newValue
          /\ avatarUrl' = newValue
          /\ IF newValue # "" THEN ValidateAndSetPreview(newValue)
             ELSE /\ validation' = Valid
                  /\ previewUrl' = ""
                  /\ isValidUrl' = TRUE
                  /\ UNCHANGED imageError
    /\ UNCHANGED <<url, argKind, result, sanitized, again, allowedDomains, calls, appVars,
                   serverAvatar, storedAvatar, lastUse, loading, updating,
                   updateRequests, imageLoading>>

\* AvatarUrlInput: <img src={previewUrl}> when there is a preview URL
PreviewRender ==
    /\ ~loading
    /\ previewUrl # ""
    /\ ~imageError
    /\ lastUse' = Use("preview", previewUrl)
    /\ UNCHANGED <<url, argKind, result, sanitized, again, allowedDomains, calls, appVars,
                   serverAvatar, storedAvatar, avatarUrl, isValidUrl, inputValue,
                   validation, previewUrl, formVars>>

\* the preview image is in the page
ImageShown == ~loading /\ previewUrl # "" /\ ~imageError

\* AvatarUrlInput.handleImageLoadStart
HandleImageLoadStart ==
    /\ ImageShown
    /\ ~imageLoading
    /\ imageLoading' = TRUE
    /\ imageError' = FALSE
    /\ UNCHANGED <<url, argKind, result, sanitized, again, allowedDomains, calls, appVars,
                   serverAvatar, storedAvatar, avatarUrl, isValidUrl, inputValue,
                   validation, previewUrl, lastUse, loading, updating, updateRequests>>

\* AvatarUrlInput.handleImageLoad
HandleImageLoad ==
    /\ ImageShown
    /\ imageLoading
    /\ imageLoading' = FALSE
    /\ imageError' = FALSE
    /\ UNCHANGED <<url, argKind, result, sanitized, again, allowedDomains, calls, appVars,
                   serverAvatar, storedAvatar, avatarUrl, isValidUrl, inputValue,
                   validation, previewUrl, lastUse, loading, updating, updateRequests>>

\* AvatarUrlInput.handleImageError
HandleImageError ==
    /\ ImageShown
    /\ imageLoading' = FALSE
    /\ imageError' = TRUE
    /\ previewUrl' = ""
    /\ UNCHANGED <<url, argKind, result, sanitized, again, allowedDomains, calls, appVars,
                   serverAvatar, storedAvatar, avatarUrl, isValidUrl, inputValue,
                   validation, lastUse, loading, updating, updateRequests>>

\* a submit handler that can run while a request is in flight
HandleUpdateAvatar_whileUpdating ==
    /\ ~loading
    /\ isValidUrl
    /\ trim(avatarUrl) # ""
    /\ lastUse' = Use("submit", avatarUrl)
    /\ updating' = TRUE
    /\ updateRequests' = Append(updateRequests, avatarUrl)
    /\ UNCHANGED <<url, argKind, result, sanitized, again, allowedDomains, calls, appVars,
                   serverAvatar, storedAvatar, avatarUrl, isValidUrl, inputValue,
                   validation, previewUrl, loading, imageLoading, imageError>>

\* Profile.handleUpdateAvatar up to its first await: the form is shown, the
\* submit button is enabled (not updating), the two guards pass, and the
\* PUT request leaves
HandleUpdateAvatar ==
    /\ ~loading
    /\ ~updating
    /\ isValidUrl
    /\ trim(avatarUrl) # ""
    /\ lastUse' = Use("submit", avatarUrl)
    /\ updating' = TRUE
    /\ updateRequests' = Append(updateRequests, avatarUrl)
    /\ UNCHANGED <<url, argKind, result, sanitized, again, allowedDomains, calls, appVars,
                   serverAvatar, storedAvatar, avatarUrl, isValidUrl, inputValue,
                   validation, previewUrl, loading, imageLoading, imageError>>

\* Profile.handleUpdateAvatar from the response on: the backend stored the
\* URL and loadUserProfile starts, or it rejected it and updating ends
UpdateAvatarResponse ==
    /\ updateRequests # <<>>
    /\ updateRequests' = Tail(updateRequests)
    /\ \E resolvesPublic \in BOOLEAN :
          IF validate_avatar_url(Head(updateRequests),
                                 toLowerCase(parseURL(Head(updateRequests)).hostname),
                                 resolvesPublic)
          THEN /\ serverAvatar' = Head(updateRequests)
               /\ loading' = TRUE
               /\ UNCHANGED updating
          ELSE /\ updating' = FALSE
               /\ UNCHANGED <<serverAvatar, loading>>
    /\ UNCHANGED <<url, argKind, result, sanitized, again, allowedDomains, calls, appVars,
                   storedAvatar, avatarUrl, isValidUrl, inputValue, validation,
                   previewUrl, lastUse, imageLoading, imageError>>

PagesNext ==
    \/ OtherClientUpdatesAvatar
    \/ HandleSubmitLogin
    \/ HeaderRender
    \/ LoadUserProfile
    \/ HandleInputChange
    \/ PreviewRender
    \/ HandleImageLoadStart
    \/ HandleImageLoad
    \/ HandleImageError
    \/ HandleUpdateAvatar
    \/ UpdateAvatarResponse

PagesSpec == PagesInit /\ [][PagesNext]_vars

-----------------------------------------------------------------------------
(* The session: App, the login form, the response interceptor of api.js and *)
(* the expiry check of auth.js act on localStorage while time passes        *)

\* the last instant of a behaviour
MaxTime == 5

\* seconds between the issue of a token and its exp claim
TokenLifetime == 2

SessionInit ==
    /\ url = ""
    /\ argKind = "string"
    /\ result = NoResult
    /\ sanitized = NotCalled
    /\ again = NotCalled
    /\ ModuleLoaded
    /\ serverAvatar = ""

\* time passes
Tick ==
    /\ now < MaxTime
    /\ now' = now + 1
    /\ UNCHANGED <<callVars, pageVars, registerVars, storage, currentView, userRole, lastOp>>

\* the page is loaded anew (the user reloads it or follows a link to it)
PageLoad ==
    /\ currentView # "loading"
    /\ currentView' = "loading"
    /\ userRole' = "null"
    /\ lastOp' = "pageLoad"
    /\ UNCHANGED <<callVars, pageVars, registerVars, storage, now>>

\* App: the effect that runs once after the first render
AppMount ==
    /\ currentView = "loading"
    /\ IF getToken(storage) # Absent
       THEN /\ userRole' = getUserRole(storage, now)
            /\ currentView' = "dashboard"
       ELSE /\ currentView' = "login"
            /\ UNCHANGED userRole
    /\ lastOp' = "mount"
    /\ UNCHANGED <<callVars, pageVars, registerVars, storage, now>>

\* Login.handleSubmit when the backend accepts the credentials: login(...)
\* stores token and user, then App.handleLoginSuccess shows the dashboard
HandleSubmit ==
    /\ currentView = "login"
    /\ \E role \in Roles :
          /\ storage' = login(storage, Token(now + TokenLifetime, role), UserData(role))
          /\ userRole' = getUserRole(login(storage, Token(now + TokenLifetime, role),
                                          UserData(role)), now)
    /\ currentView' = "dashboard"
    /\ lastOp' = "login"
    /\ UNCHANGED <<callVars, pageVars, registerVars, now>>

\* App.handleLogout, reached from the Layout of a dashboard or the profile
HandleLogout ==
    /\ currentView \in {"dashboard", "profile"}
    /\ userRole \in Roles
    /\ storage' = logout(storage)
    /\ currentView' = "login"
    /\ userRole' = "null"
    /\ lastOp' = "logout"
    /\ UNCHANGED <<callVars, pageVars, registerVars, now>>

\* App.handleNavigateToProfile and App.handleNavigateToDashboard
HandleNavigate ==
    /\ currentView \in {"dashboard", "profile"}
    /\ userRole \in Roles
    /\ currentView' = IF currentView = "dashboard" THEN "profile" ELSE "dashboard"
    /\ lastOp' = "navigate"
    /\ UNCHANGED <<callVars, pageVars, registerVars, storage, now, userRole>>

\* App renders the dashboard view with a role that is none of the three:
\* the default branch of the switch
RenderInvalidRole ==
    /\ currentView = "dashboard"
    /\ userRole \notin Roles
    /\ storage' = [storage EXCEPT !["token"] = Absent]
    /\ currentView' = "login"
    /\ lastOp' = "invalidRole"
    /\ UNCHANGED <<callVars, pageVars, registerVars, now, userRole>>

\* api.js: the response interceptor sees status 401 for a request of a
\* dashboard or the profile; window.location.href = '/login' loads the page
Unauthorized ==
    /\ currentView \in {"dashboard", "profile"}
    /\ storage' = removeToken(storage)
    /\ currentView' = "loading"
    /\ userRole' = "null"
    /\ lastOp' = "unauthorized"
    /\ UNCHANGED <<callVars, pageVars, registerVars, now>>

\* auth.js: checkTokenExpiration finds a stored token that is not valid
CheckTokenExpiration ==
    /\ getToken(storage) # Absent
    /\ ~isTokenValid(getToken(storage), now)
    /\ storage' = logout(storage)
    /\ lastOp' = "expiryCheck"
    /\ UNCHANGED <<callVars, pageVars, registerVars, now, currentView, userRole>>

SessionNext ==
    \/ Tick
    \/ PageLoad
    \/ AppMount
    \/ HandleSubmit
    \/ HandleLogout
    \/ HandleNavigate
    \/ RenderInvalidRole
    \/ Unauthorized
    \/ CheckTokenExpiration

SessionSpec == SessionInit /\ [][SessionNext]_vars

-----------------------------------------------------------------------------
(* The registration form: the user fills in the fields and submits          *)

\* what the user types into each field
FieldValues ==
    [email |-> {"a@b", "ana@mail.com"},
     password |-> {"", "Abcdefg1", "abcdefg1!", "Ab1!", "Abcdefgh", "Abcdefg1!"},
     confirmPassword |-> {"Abcdefg1", "abcdefg1!", "Ab1!", "Abcdefgh", "Abcdefg1!"},
     first_name |-> {"A", "Ana"},
     last_name |-> {" ", "Paz"}]

RegisterInit ==
    /\ url = ""
    /\ argKind = "string"
    /\ result = NoResult
    /\ sanitized = NotCalled
    /\ again = NotCalled
    /\ ModuleLoaded
    /\ serverAvatar = ""

\* Register.handleChange: the field takes the typed value and its error is
\* cleared
HandleChange ==
    /\ ~isLoading
    /\ \E name \in Fields :
          \E value \in FieldValues[name] :
              /\ formData[name] # value
              /\ formData' = [formData EXCEPT ![name] = value]
              /\ errors' = errors \ {name}
    /\ UNCHANGED <<callVars, pageVars, sessionVars, isLoading, registerRequests>>

\* Register.handleSubmit up to its await: validateForm sets errors, and
\* when there is none the register request leaves
HandleSubmitRegister ==
    /\ ~isLoading
    /\ errors' = newErrors(formData)
    /\ IF newErrors(formData) # {}
       THEN UNCHANGED <<isLoading, registerRequests>>
       ELSE /\ isLoading' = TRUE
            /\ registerRequests' =
                   Append(registerRequests,
                          [email |-> trim(formData.email), password |-> formData.password,
                           first_name |-> trim(formData.first_name),
                           last_name |-> trim(formData.last_name)])
    /\ UNCHANGED <<callVars, pageVars, sessionVars, formData>>

\* Register.handleSubmit from the response on: the backend created the
\* account (login stores the session and the page is left for the
\* dashboard) or refused, and isLoading ends
RegisterResponse ==
    /\ registerRequests # <<>>
    /\ registerRequests' = Tail(registerRequests)
    /\ isLoading' = FALSE
    /\ \E created \in BOOLEAN :
          IF created
          THEN /\ storage' = login(storage, Token(now + TokenLifetime, "patient"),
                                   UserData("patient"))
               /\ lastOp' = "login"
               /\ formData' = EmptyForm
               /\ errors' = {}
          ELSE UNCHANGED <<storage, lastOp, formData, errors>>
    /\ UNCHANGED <<callVars, pageVars, now, currentView, userRole>>

RegisterNext == HandleChange \/ HandleSubmitRegister \/ RegisterResponse

RegisterSpec == RegisterInit /\ [][RegisterNext]_vars

TypeOK ==
    /\ url \in Inputs
    /\ argKind \in {"string"} \cup NonStringKinds
    /\ result.valid \in BOOLEAN
    /\ sanitized.threw \in BOOLEAN
    /\ again.threw \in BOOLEAN
    /\ Len(calls) <= MaxCalls

-----------------------------------------------------------------------------
(* Properties                                                               *)

Returned == result # NoResult

\* the scheme as written in the argument, lower-cased
RawScheme(u) == toLowerCase(Take(trim(u), indexOf(trim(u), ":") - 1))

\* URL.hostname of the argument, lower-cased
HostnameOf(u) == toLowerCase(parseURL(trim(u)).hostname)

IpLiteralUrls ==
    {s \o "://" \o h \o r : s \in Schemes, h \in IPv4Literals \cup IPv6Literals, r \in IpRests}

\* C1: a URL whose host is a syntactically valid IPv4 or IPv6 literal, public
\* or private, with any scheme, port, path or query, is never valid.
C1_IpRejectionTotal == url \in IpLiteralUrls => ~result.valid

C1_Witness ==
    /\ Returned
    /\ url \in {s \o "://" \o h \o "/x" : s \in WebSchemes, h \in PublicIPv4Literals}
    /\ ~result.valid

ProperSubdomainOrEqual(h) ==
    \E e \in AllowedDomainSet :
        \/ h = e
        \/ \E n \in 1..Len(h) : Len(h) = n + 1 + Len(e) /\ Drop(h, n) = "." \o e

ReachedDomainStage == Returned /\ result.message \in {MsgDomain, MsgSuspicious, NoMessage}

\* C2: the domain stage passes a lower-cased host h if and only if h is an
\* allow-list entry e or h = p + "." + e for a non-empty prefix p.
C2_DomainStageIff ==
    ReachedDomainStage =>
        ((result.message # MsgDomain) <=> ProperSubdomainOrEqual(HostnameOf(url)))

AcceptanceUrls ==
    {s \o "://" \o p \o d \o "/x" :
        s \in WebSchemes, p \in {"", "a."}, d \in AllowedDomainSet}

\* C3: for every allowed domain d and scheme s in {http, https}, s://d/x
\* and s://a.d/x are valid.
C3_Acceptance == (Returned /\ url \in AcceptanceUrls) => result = Valid

C3_Witness == Returned /\ url = "http://a.postimg.cc/x" /\ result.valid

ObfuscatedUrls(schemes) ==
    {s \o "://" \o h \o r : s \in schemes, h \in ObfuscatedIPv4Hosts, r \in IpRests}

\* C4: a host that is a decimal, hexadecimal or octal-looking spelling of an
\* IPv4 address is rejected by the IP-literal stage, never reaches the
\* domain stage and is never valid.
C4_ObfuscatedIpv4 ==
    /\ (Returned /\ url \in ObfuscatedUrls(WebSchemes)) => result = Rejected(MsgIP)
    /\ (Returned /\ url \in ObfuscatedUrls(Schemes)) =>
          (~result.valid /\ result.message # MsgDomain)

C4_Witness == url = "http://0x7f000001/" /\ result = Rejected(MsgIP)

FtpOnAllowedDomain == {"ftp://" \o d \o "/f" : d \in AllowedDomainSet}

\* C5: every parsable URL whose scheme is not http or https is rejected with
\* the disallowed-scheme reason, also on an allow-listed domain.
C5_SchemeRejection ==
    /\ (Returned /\ parseURL(url).ok /\ RawScheme(url) \notin WebSchemes)
          => result = Rejected(MsgProtocol)
    /\ (Returned /\ url \in FtpOnAllowedDomain) => result = Rejected(MsgProtocol)

C5_Witness == url = "ftp://gravatar.com/f" /\ result = Rejected(MsgProtocol)

\* the stages of validateAvatarUrl, each taken alone
FailsParse(u) == trim(u) = "" \/ ~parseURL(trim(u)).ok

FailsScheme(u) == RawScheme(u) \notin WebSchemes

FailsIpLiteral(u) == isIPAddress(HostnameOf(u))

FailsDomain(u) == ~domainAllowed(HostnameOf(u))

FailsScan(u) == containsSuspiciousPatterns(trim(u))

LocalhostUrls ==
    {s \o "://localhost" \o r : s \in WebSchemes, r \in Rests}
    \ {s \o "://localhost:99999" \o t : s \in WebSchemes, t \in ShortTails}

\* C6: the stages run in the order parse, scheme, IP literal, domain
\* allow-list, pattern scan, and the reason returned is that of the earliest
\* stage the input fails.
C6_FailFastOrder ==
    Returned =>
        LET parse == FailsParse(url)
            scheme == FailsScheme(url)
            ip == FailsIpLiteral(url)
            domain == FailsDomain(url)
            scan == FailsScan(url)
        IN  /\ parse => result.message \in {MsgRequired, MsgEmpty, MsgInvalid}
            /\ (~parse /\ scheme) => result = Rejected(MsgProtocol)
            /\ (~parse /\ ~scheme /\ ip) => result = Rejected(MsgIP)
            /\ (~parse /\ ~scheme /\ ~ip /\ domain) => result = Rejected(MsgDomain)
            /\ (~parse /\ ~scheme /\ ~ip /\ ~domain /\ scan)
                  => result = Rejected(MsgSuspicious)
            /\ url \in LocalhostUrls => result = Rejected(MsgDomain)

\* an input that fails the scheme, IP-literal, domain and scan stages at once
C6_Witness ==
    /\ url = "ftp://127.0.0.1/admin"
    /\ FailsScheme(url) /\ FailsIpLiteral(url) /\ FailsDomain(url) /\ FailsScan(url)
    /\ result = Rejected(MsgProtocol)

InPrivateRange(hostname) == \E prefix \in PRIVATE_IP_RANGES : startsWith(hostname, prefix)

\* what the call returns for a literal address outside every listed range
PublicIpResult == validateAvatarUrl("http://8.8.8.8/")

\* C7: an IP-literal host in a loopback, private, link-local, reserved or
\* multicast range is rejected with a reason that differs from the one
\* returned for an address in none of these ranges.
C7_TwoIpReasons ==
    (Returned /\ RawScheme(url) \in WebSchemes /\ ~FailsParse(url)
        /\ ipv4Pattern(HostnameOf(url)))
    => /\ ~result.valid
       /\ InPrivateRange(HostnameOf(url)) <=> (result.message # PublicIpResult.message)

IPv6Urls == {s \o "://" \o h \o r : s \in WebSchemes, h \in IPv6Literals, r \in IpRests}

\* C8: a URL whose host is an IPv6 literal is rejected by the IP-literal
\* stage with the IP reason, not by the domain allow-list.
C8_IPv6IsIpLiteral == (Returned /\ url \in IPv6Urls) => result = Rejected(MsgIP)

SensitivePortUrls ==
    {s \o "://" \o p \o d \o port \o t :
        s \in WebSchemes, p \in SubdomainPrefixes, d \in AllowedDomainSet,
        port \in SensitivePorts, t \in ShortTails}

\* C9: an http/https URL on an allow-listed domain with port 22, 23, 3389,
\* 5432, 3306, 6379 or 27017 is rejected with the suspicious-pattern reason,
\* whatever follows the port (a path, a query, a fragment or nothing).
C9_SensitivePorts == (Returned /\ url \in SensitivePortUrls) => result = Rejected(MsgSuspicious)

OnAllowListedDomain(u) ==
    /\ ~FailsParse(u)
    /\ RawScheme(u) \in WebSchemes
    /\ ProperSubdomainOrEqual(HostnameOf(u))

SuspiciousWords == {"localhost", "internal", "admin", "management"}

HasPercentEscape(text) ==
    \E i \in 1..Len(text) :
        At(text, i) = "%" /\ IsHexDigit(At(text, i + 1)) /\ IsHexDigit(At(text, i + 2))

HasSuspiciousWord(text) == \E w \in SuspiciousWords : includes(toLowerCase(text), w)

\* C10: an http/https URL on an allow-listed domain whose raw, trimmed text
\* holds a %xx sequence or, in any letter case, one of the words localhost,
\* internal, admin, management is rejected with the suspicious-pattern reason.
C10_RawScan ==
    (Returned /\ OnAllowListedDomain(url)
        /\ (HasPercentEscape(trim(url)) \/ HasSuspiciousWord(trim(url))))
    => result = Rejected(MsgSuspicious)

C10_Witness ==
    /\ url = "https://imgur.com/LocalHost"
    /\ OnAllowListedDomain(url)
    /\ result = Rejected(MsgSuspicious)

\* the port numbers the scan lists
SensitivePortNumbers == {Drop(p, 1) : p \in SensitivePorts}

\* C20: the sensitive-port rules fire on the port of the authority only: an
\* http/https URL on an allow-listed domain whose port is none of the seven
\* and whose text matches no other rule of the scan is valid, also with
\* ":3306" in its path and with a port such as 33890 or 54321.
C20_PortRulesOnAuthorityOnly ==
    (/\ argKind = "string"
     /\ Returned
     /\ OnAllowListedDomain(url)
     /\ parseURL(url).port \notin SensitivePortNumbers
     /\ ~HasPercentEscape(trim(url))
     /\ ~HasSuspiciousWord(trim(url))
     /\ ~unicodeEscape(trim(url)))
    => result = Valid

\* C18: the client and the server apply the identical policy: the two
\* lists hold the same domains, and a host passes the frontend domain check
\* exactly when it passes the backend domain check.
C18_SameDomainPolicy ==
    (argKind = "string" /\ Returned /\ ~FailsParse(url)) =>
        /\ AllowedDomainSet = {allowed_domains[k] : k \in 1..Len(allowed_domains)}
        /\ domainAllowed(HostnameOf(url)) <=> hostnameListed(HostnameOf(url))

-----------------------------------------------------------------------------
(* Outcomes of validateAvatarUrl                                            *)

\* the messages a rejection can carry
RejectionMessages ==
    {MsgRequired, MsgEmpty, MsgInvalid, MsgProtocol, MsgIP, MsgDomain, MsgSuspicious}

\* the reason a message stands for
ReasonOf(message) ==
    CASE message \in {MsgRequired, MsgEmpty, MsgInvalid} -> "malformed URL"
      [] message = MsgProtocol -> "disallowed scheme"
      [] message = MsgIP -> "IP literal"
      [] message = MsgDomain -> "domain not allowed"
      [] message = MsgSuspicious -> "suspicious pattern"
      [] OTHER -> "(none)"

Reasons ==
    {"malformed URL", "disallowed scheme", "IP literal", "domain not allowed",
     "suspicious pattern"}

\* C15: validateAvatarUrl is total with a closed set of outcomes: for every
\* string and every missing or non-string value it returns a result and
\* raises nothing; a string new URL cannot parse is rejected as malformed;
\* every rejection carries one reason of the five.
C15_ClosedOutcomes ==
    Returned =>
        /\ result # Raised
        /\ result.valid => result = Valid
        /\ ~result.valid => ReasonOf(result.message) \in Reasons
        /\ argKind # "string" => ~result.valid /\ ReasonOf(result.message) = "malformed URL"
        /\ (argKind = "string" /\ trim(url) # "" /\ ~parseURL(url).ok) =>
                result = Rejected(MsgInvalid)

\* an object was passed, and the call returned the malformed-URL rejection
C15_Witness ==
    /\ argKind = "object"
    /\ result = Rejected(MsgRequired)

\* C16 as stated: for every string, the result for the padded string is the
\* result for the trimmed string.
C16_SameAsTrimmed ==
    (argKind = "string" /\ Returned) => result = validateAvatarUrl(trim(url))

\* C16 amended: the result for a padded string is the result for the
\* trimmed string when the trimmed string is not empty; a string that is
\* empty after trimming is rejected as malformed, the empty string with
\* one message and a blank string with another.
C16_SameAsTrimmedNonEmpty ==
    (argKind = "string" /\ Returned) =>
        IF trim(url) # "" THEN result = validateAvatarUrl(trim(url))
        ELSE /\ ~result.valid
             /\ ReasonOf(result.message) = "malformed URL"
             /\ result.message = (IF url = "" THEN MsgRequired ELSE MsgEmpty)

\* a URL with a blank on either side was accepted although the same string
\* with the trailing blank kept would match the port rule
C16_Witness ==
    /\ url = " https://imgur.com:22 "
    /\ result = Valid
    /\ containsSuspiciousPatterns("https://imgur.com:22 ")

\* C19: every URL the UI shows as an example gets the verdict shown with
\* it: the URLs of exampleUrls.valid are accepted, the URLs of
\* exampleUrls.invalid and of the panel of blocked URLs are rejected.
C19_ExamplesAsAdvertised ==
    (argKind = "string" /\ Returned) =>
        /\ url \in ExampleValidUrls => result = Valid
        /\ url \in ExampleInvalidUrls \cup BlockedExampleUrls => ~result.valid

\* the validator has accepted the gravatar example
C19_Witness ==
    /\ url = "https://gravatar.com/avatar/123.jpg"
    /\ result = Valid

\* C11: every avatar URL handed to the network (the source of the header
\* image, the source of the preview image, the body of the update request)
\* is one validateAvatarUrl accepts at the moment it is used.
C11_ValidatedAtEveryUse ==
    lastUse # NoUse => validateAvatarUrl(lastUse.url).valid

\* C17: validateAvatarUrl is pure with respect to shared state: no call
\* changes ALLOWED_DOMAINS, and two validateAvatarUrl calls with the same
\* argument return equal results whatever calls of validateAvatarUrl,
\* sanitizeUrl, isAllowedDomain and getSSRFErrorMessage run before, between
\* and after them.
C17_PureOnSharedState ==
    /\ allowedDomains = ALLOWED_DOMAINS
    /\ \A i \in 1..Len(calls), j \in 1..Len(calls) :
          (calls[i].fn = "validateAvatarUrl" /\ calls[j].fn = "validateAvatarUrl"
              /\ calls[i].arg = calls[j].arg)
          => calls[i] = calls[j]
    /\ \A i \in 1..Len(calls) :
          calls[i].fn = "validateAvatarUrl" =>
              /\ calls[i].ok = validateAvatarUrl(calls[i].arg).valid
              /\ calls[i].text = validateAvatarUrl(calls[i].arg).message

\* two validateAvatarUrl calls with one argument, a getSSRFErrorMessage
\* call between them, returned the same accepting result
C17_Witness ==
    /\ Len(calls) = 3
    /\ calls[1] = Call("validateAvatarUrl", "https://imgur.com/x?next=1#f", TRUE, NoMessage)
    /\ calls[2].fn = "getSSRFErrorMessage"
    /\ calls[3] = calls[1]

-----------------------------------------------------------------------------
(* sanitizeUrl                                                              *)

\* sanitizeUrl(url) has ended, by a return or by an exception
Sanitized == sanitized # NotCalled

DangerousNames == {dangerousParams[k] : k \in 1..Len(dangerousParams)}

\* the names of the query parameters of a URL string
ParamNames(u) ==
    {searchParams(parseURL(u))[k].name : k \in 1..Len(searchParams(parseURL(u)))}

\* C12: for every string that parses as a URL, what sanitizeUrl returns has
\* no fragment and no query parameter named redirect, callback, return, url
\* or next, however often the name occurred.
C12_SanitizedClean ==
    (argKind = "string" /\ Sanitized /\ parseURL(url).ok) =>
        /\ ~sanitized.threw
        /\ parseURL(sanitized.value).ok
        /\ ~includes(sanitized.value, "#")
        /\ ParamNames(sanitized.value) \cap DangerousNames = {}

\* a URL with the same dangerous name twice, another parameter and a
\* fragment has been sanitized
C12_Witness ==
    /\ url = "https://a.gravatar.com/a/../b/./c?next=1&next=2&q=1#f"
    /\ sanitized = Returns("https://a.gravatar.com/b/c?q=1")

\* C13: sanitizeUrl is idempotent on strings: sanitizing what sanitizeUrl
\* returned returns it unchanged.
C13_Idempotent ==
    (argKind = "string" /\ again # NotCalled) =>
        /\ ~again.threw
        /\ again.value = sanitized.value

\* the first call changed its argument and the second call changed nothing
C13_Witness ==
    /\ argKind = "string"
    /\ again # NotCalled
    /\ parseURL(url).ok
    /\ sanitized.value # trim(url)
    /\ again = sanitized

\* v is u without white space at its two ends, nothing else changed
TrimmedOf(u, v) ==
    /\ \E i \in 0..Len(u), j \in 0..Len(u) :
          /\ i + j <= Len(u)
          /\ u = Take(u, i) \o v \o Drop(u, Len(u) - j)
          /\ \A k \in 1..i : IsWhiteSpace(At(u, k))
          /\ \A k \in (Len(u) - j + 1)..Len(u) : IsWhiteSpace(At(u, k))
    /\ ~IsWhiteSpace(At(v, 1))
    /\ ~IsWhiteSpace(At(v, Len(v)))

\* C14: sanitizeUrl is total on strings: it never throws, and for a string
\* that does not parse as a URL it returns the string without its
\* surrounding white space, nothing else changed.
C14_TotalOnStrings ==
    (argKind = "string" /\ Sanitized) =>
        /\ ~sanitized.threw
        /\ ~parseURL(url).ok => TrimmedOf(url, sanitized.value)

\* a padded string that is no URL has been sanitized
C14_Witness ==
    /\ url = " http://imgur com/x?next=1#f "
    /\ sanitized = Returns("http://imgur com/x?next=1#f")

\* the text with the letters of its host in upper case
upperHost(text) ==
    IF writtenAuthorityStart(text) = 0 THEN text
    ELSE Take(text, writtenAuthorityStart(text) - 1 + Len(writtenAuthority(text))
                    - Len(writtenHostPort(text)))
         \o toUpperCase(writtenHostPort(text))
         \o Drop(text, writtenAuthorityStart(text) - 1 + Len(writtenAuthority(text)))

\* the text with the letters of its host in lower case
lowerHost(text) ==
    IF writtenAuthorityStart(text) = 0 THEN text
    ELSE Take(text, writtenAuthorityStart(text) - 1 + Len(writtenAuthority(text))
                    - Len(writtenHostPort(text)))
         \o toLowerCase(writtenHostPort(text))
         \o Drop(text, writtenAuthorityStart(text) - 1 + Len(writtenAuthority(text)))

\* C22: the result of validateAvatarUrl (validity and message) is the same
\* for the argument, for the argument with its host in upper case and for
\* the argument with its host in lower case
C22_HostCaseIrrelevant ==
    (Returned /\ argKind = "string") =>
        /\ result = validateAvatarUrl(upperHost(url))
        /\ result = validateAvatarUrl(lowerHost(url))

\* an accepted URL whose host is written with upper-case letters, and a
\* host of mixed case
C22_Witness ==
    /\ Returned
    /\ result.valid
    /\ writtenHost(url) # ""
    /\ writtenHost(url) # toLowerCase(writtenHost(url))
    /\ upperHost(url) # url

-----------------------------------------------------------------------------
(* createPreviewUrl (PreviewSpec)                                           *)

PreviewReturned == preview # NotCalled

\* C21: createPreviewUrl never throws, returns the empty string exactly when
\* validateAvatarUrl rejects its argument, and returns what sanitizeUrl
\* returns for the argument otherwise
C21_SanitizedOnlyWhenAccepted ==
    PreviewReturned =>
        /\ ~preview.threw
        /\ (preview.value = "") <=> ~validateAvatarUrlOf(argKind, url).valid
        /\ validateAvatarUrlOf(argKind, url).valid =>
               preview = sanitizeUrlOf(argKind, url)

\* an accepted URL came back without its dangerous parameter
C21_Witness ==
    /\ PreviewReturned
    /\ validateAvatarUrlOf(argKind, url).valid
    /\ includes(url, "next=")
    /\ preview.value # ""
    /\ ~includes(preview.value, "next=")

\* C24: the string sanitizeUrl returns for an accepted URL is accepted by
\* validateAvatarUrl as well
C24_SanitizedStaysAccepted ==
    (PreviewReturned /\ validateAvatarUrlOf(argKind, url).valid /\ result # NoResult)
        => result.valid

-----------------------------------------------------------------------------
(* The session (SessionSpec)                                                *)

\* the stored token carries an exp claim that lies before the current time
StoredTokenExpired ==
    /\ getToken(storage) # Absent
    /\ getToken(storage).parsable
    /\ getToken(storage).exp < now

\* C23: while the stored token has expired, isAuthenticated() is false and
\* getCurrentUser() and getUserRole() return null, also with user data in
\* storage
C23_ExpiredTokenIsNoSession ==
    StoredTokenExpired =>
        /\ isAuthenticated(storage, now) = "false"
        /\ getCurrentUser(storage, now) = NoUser
        /\ getUserRole(storage, now) = "null"

\* the token of a login has expired and the user data of that login is
\* still stored
C23_Witness ==
    /\ StoredTokenExpired
    /\ getUser(storage) # Absent
    /\ getUser(storage).role = getToken(storage).role

SessionEnded == lastOp \in {"logout", "unauthorized", "expiryCheck"}

\* C28 as stated: user data is stored only while a token is stored, and
\* directly after logout, a 401 response or an expiry check that found an
\* expired token both items are absent and isAuthenticated() is false
C28_StorageConsistentFalse ==
    /\ getUser(storage) # Absent => getToken(storage) # Absent
    /\ SessionEnded =>
          /\ getToken(storage) = Absent
          /\ getUser(storage) = Absent
          /\ isAuthenticated(storage, now) = "false"

\* C28, amended: as above, with isAuthenticated() returning null (the value
\* of token && isTokenValid(token) when getToken() is null)
C28_StorageConsistent ==
    /\ getUser(storage) # Absent => getToken(storage) # Absent
    /\ SessionEnded =>
          /\ getToken(storage) = Absent
          /\ getUser(storage) = Absent
          /\ isAuthenticated(storage, now) = "null"

\* the expiry check has just removed the session of an earlier login
C28_Witness ==
    /\ lastOp = "expiryCheck"
    /\ getToken(storage) = Absent
    /\ currentView \in {"dashboard", "profile"}

\* C29: in the login view App reaches from the dashboard view with an
\* invalid role, no session token is left in storage
C29_InvalidRoleRemovesToken ==
    lastOp = "invalidRole" => getToken(storage) = Absent

-----------------------------------------------------------------------------
(* Profile and AvatarUrlInput (PagesSpec)                                   *)

\* C25: whenever previewUrl is not empty, the validation state is valid,
\* validateAvatarUrl accepts the current input value, and previewUrl is
\* sanitizeUrl of the current input value
C25_PreviewFollowsInput ==
    previewUrl # "" =>
        /\ validation.valid
        /\ validateAvatarUrl(inputValue).valid
        /\ previewUrl = sanitizeUrl(inputValue)

\* the image shows the sanitized form of the text in the field, which
\* differs from that text, after an earlier text had been rejected
C25_Witness ==
    /\ lastUse = Use("preview", previewUrl)
    /\ previewUrl # ""
    /\ previewUrl # inputValue
    /\ ~imageLoading

\* C26: every update request carries an avatarUrl that is not empty after
\* trimming and that validateAvatarUrl accepts, at most one update request
\* is in flight, and while the form shows a text that is not blank the
\* isValidUrl flag is the validator's verdict on it
C26_SubmitsOnlyValidated ==
    /\ Len(updateRequests) <= 1
    /\ \A i \in 1..Len(updateRequests) :
          /\ trim(updateRequests[i]) # ""
          /\ validateAvatarUrl(updateRequests[i]).valid
          /\ updateRequests[i] = avatarUrl
    /\ (~loading /\ trim(avatarUrl) # "") =>
          isValidUrl = validateAvatarUrl(avatarUrl).valid

\* a request is in flight for a text that was typed with blanks around it
C26_Witness ==
    /\ Len(updateRequests) = 1
    /\ updating
    /\ updateRequests[1] # trim(updateRequests[1])

-----------------------------------------------------------------------------
(* getSSRFErrorMessage against validateAvatarUrl (Spec)                     *)

\* the message getSSRFErrorMessage gives for a host off the allow-list
MsgDomainNotAllowed ==
    "Dominio no permitido. Solo se permiten: " \o join(allowedDomains, ", ")

\* C27: for a rejected string, getSSRFErrorMessage returns the format message
\* iff validateAvatarUrl failed before or at parsing, the IP message iff it
\* failed at the IP-literal stage, the domain message iff it failed at the
\* domain stage, and the generic message only for failures of the other
\* stages (scheme, scan); an accepted string never gets the generic message
C27_MessageNamesStage ==
    (Returned /\ argKind = "string" /\ url # "") =>
        /\ ~result.valid =>
              /\ (getSSRFErrorMessage(allowedDomains, url) = MsgBadFormat)
                    <=> result.message \in {MsgEmpty, MsgInvalid}
              /\ (getSSRFErrorMessage(allowedDomains, url) = MsgNoIP)
                    <=> result.message = MsgIP
              /\ (getSSRFErrorMessage(allowedDomains, url) = MsgDomainNotAllowed)
                    <=> result.message = MsgDomain
              /\ (getSSRFErrorMessage(allowedDomains, url) = MsgSecurity)
                    => result.message \in {MsgProtocol, MsgSuspicious}
        /\ result.valid => getSSRFErrorMessage(allowedDomains, url) # MsgSecurity

-----------------------------------------------------------------------------
(* The registration form (RegisterSpec)                                     *)

\* the four requirements the form lists
MeetsRequirements(password) ==
    /\ Len(password) >= 8
    /\ hasCharOf(password, LowerAlpha)
    /\ hasCharOf(password, UpperAlpha)
    /\ hasCharOf(password, Digits)

\* C30: every register request carries a password of at least 8 characters
\* with a lower-case letter, an upper-case letter and a digit
C30_OnlyStrongPasswordsSent ==
    \A i \in 1..Len(registerRequests) :
        MeetsRequirements(registerRequests[i].password)

=============================================================================
